---- MODULE Spec2Model ----
(***************************************************************************)
(* Model of the plagiarism worker: the upload endpoint that creates a task *)
(* and publishes its envelope, the broker queue with its dead-letter       *)
(* binding, the worker's delivery callback process_new_message (indexing,  *)
(* pair scheduling, pair processing, settlement), the task store and the   *)
(* result store behind crud.py, and the Redis cache and inverted index.    *)
(***************************************************************************)
EXTENDS Integers, Sequences, FiniteSets, TLC

(***************************************************************************)
(* Bounds of the model.                                                    *)
(***************************************************************************)
MaxTasks == 2
MaxFaults == 1

TaskIds == 1..MaxTasks
\* message 0 is an envelope without task_id; message t carries task t
MsgIds == 0..MaxTasks
Workers == {1, 2}
NoMsg == -1
NULL == -1

(***************************************************************************)
(* File contents.  A content hash stands for the bytes of a file; what the *)
(* fingerprint CLI prints for them is a function of the content alone.     *)
(*   hA, hB : readable files sharing no token fingerprint, one AST hash    *)
(*   hC     : a blob the CLI cannot read (missing or not UTF-8)            *)
(***************************************************************************)
Hashes == {"hA", "hB", "hC"}
Languages == {"python", "cobol"}

Readable(h) == h # "hC"

\* a winnowed fingerprint as cli.py prints it: hash, start (line, col), end (line, col)
Fp(hash, line) == [hash |-> hash, start |-> <<line, 0>>, end |-> <<line, 6>>]

Fingerprints(h) ==
  CASE h = "hA" -> <<Fp(1, 0), Fp(2, 1)>>
    [] h = "hB" -> <<Fp(3, 0), Fp(4, 1)>>
    [] h = "hD" -> <<Fp(3, 4), Fp(1, 5)>>
    [] OTHER    -> << >>

AstHashes(h) ==
  CASE h = "hA" -> <<10, 11>>
    [] h = "hB" -> <<11, 12>>
    [] h = "hD" -> <<11, 12>>
    [] OTHER    -> << >>

\* cli.py: argparse accepts only these for --language
SupportedLanguage(l) == l \in {"python", "cpp"}

\* run_cli_fingerprint: TRUE when the subprocess exits 0
CliOk(h, l) == SupportedLanguage(l) /\ Readable(h)

(***************************************************************************)
(* Uploads the endpoint is driven with: the hashes of the uploaded files   *)
(* in order, and the language form field.                                  *)
(***************************************************************************)
Uploads ==
  { [hashes |-> <<"hA">>,        language |-> "python"],
    [hashes |-> <<"hA", "hA">>,  language |-> "python"],
    [hashes |-> <<"hA", "hB">>,  language |-> "python"],
    [hashes |-> <<"hB", "hC">>,  language |-> "python"],
    [hashes |-> <<"hA", "hB">>,  language |-> "cobol"] }

NoUpload == [hashes |-> << >>, language |-> "none"]

VARIABLES
  upl,        \* upl[t]: what was uploaded as task t (NoUpload before)
  tasks,      \* plagiarism_tasks rows: tasks[t] = [status, error, total_pairs, processed_pairs]
  results,    \* similarity_results rows
  queue,      \* messages on the task queue
  dlq,        \* messages on the dead-letter queue
  inv,        \* inverted index inv:hash:{language}:{fp} -> content hashes, as triples
  fidx,       \* inverted index inv:file:{language}:{content hash} -> fps, as triples
  astCache,   \* content hashes with a plagiarism:ast: key
  fpCache,    \* content hashes with a plagiarism:fp: key
  simCache,   \* plagiarism:sim: entries
  redisUp,    \* the Redis server answers
  cacheConn,  \* cacheConn[w]: the _connected flag of worker w's PlagiarismCache
  connUp,     \* connUp[w]: worker w's AMQP channel is open
  faults,     \* faults injected so far
  pc,         \* pc[w]: where worker w is in process_new_message
  cur,        \* cur[w]: the delivery worker w holds, NoMsg when idle
  existing,   \* existing[w]: existing_files
  intra,      \* intra[w]: intra_task_pairs
  cross,      \* cross[w]: cross_task_pairs
  pending,    \* pending[w]: the exception being handled, "" when none
  pw,         \* pw[w]: the locals of the pair loop and of save_similarity_result
  deliveries, \* deliveries[m]: times message m was delivered
  acked,      \* acked[m]: basic_ack calls that reached the broker for m
  rejected,   \* rejected[m]: basic_reject calls that reached the broker for m
  settle_calls, \* settle_calls[w]: basic_ack and basic_reject calls worker w has
              \* made in the callback it is in or was last in, whether they
              \* raised or not
  main,       \* main[w]: worker w's connection loop: its attempt number, where it
              \* is, and how many connection attempts in a row have failed
  cache,      \* the plagiarism:fp:, plagiarism:ast:, plagiarism:tokens: and
              \* plagiarism:sim: keys with their values (PlagiarismCache)
  fingerprint_store,  \* the fp:token:, fp:ast: and sim:cache: keys with their
              \* values (RedisFingerprintStore)
  call,       \* the last call made on a store or on the index, and what it returned
  cmp,        \* the two files handed to the comparison (their token streams when
              \* they are fingerprinted first), and what it returned for them in
              \* either order
  ttl         \* when the keys of the inverted index got their ttl: ttl.hash[<<l, fp>>]
              \* for inv:hash:{l}:{fp}, ttl.file[<<l, c>>] for inv:file:{l}:{c}

vars == <<upl, tasks, results, queue, dlq, inv, fidx, astCache, fpCache, simCache,
          redisUp, cacheConn, connUp, faults, pc, cur, existing, intra, cross, pending, pw,
          deliveries, acked, rejected, settle_calls, main, cache, fingerprint_store, call, ttl,
          cmp>>

storeVars == <<cache, fingerprint_store, call, ttl, cmp>>

(***************************************************************************)
(* Files: uuid4 ids are unique; file i of task t gets id 10*t + i.         *)
(***************************************************************************)
FileId(t, i) == 10 * t + i

\* the "files" list of task t's envelope (router.py file_paths)
EnvelopeFiles(t) ==
  [i \in 1..Len(upl[t].hashes) |-> [id |-> FileId(t, i), task |-> t, hash |-> upl[t].hashes[i]]]

RECURSIVE FilesOfTasks(_)
FilesOfTasks(n) ==
  IF n = 0 THEN << >> ELSE FilesOfTasks(n - 1) \o EnvelopeFiles(n)

\* get_all_files without its WHERE clause: every file row
GetAllFilesUnfiltered(t) == FilesOfTasks(MaxTasks)

\* crud.get_all_files(exclude_task_id): every file row of another task
GetAllFiles(t) ==
  LET keep(f) == f.task # t IN SelectSeq(FilesOfTasks(MaxTasks), keep)

(***************************************************************************)
(* Task store.                                                             *)
(***************************************************************************)
NoTask == [status |-> "none", error |-> "", total_pairs |-> NULL, processed_pairs |-> NULL]

\* crud.update_plagiarism_task(task_id, status, similarity, matches, error):
\* a call with any other keyword raises TypeError before touching the store
UpdateTaskParams == {"task_id", "status", "similarity", "matches", "error"}

\* an update_plagiarism_task that takes the progress keywords as well
AnyKeywordAccepted(kw) == TRUE

UpdateTaskAccepts(kw) == kw \subseteq UpdateTaskParams

\* the UPDATE ... WHERE id = task_id; a missing row is not an error
UpdateTask(t, status, error) ==
  IF t \in TaskIds /\ tasks[t].status # "none"
  THEN [tasks EXCEPT ![t].status = status, ![t].error = error]
  ELSE tasks

(***************************************************************************)
(* Inverted index (worker/inverted_index.py).                              *)
(***************************************************************************)
ThresholdPercent == 15

Max(a, b) == IF a >= b THEN a ELSE b

RECURSIVE OverlapCount(_, _, _)
\* the Counter entry of content hash c after querying every fingerprint of fps
OverlapCount(fps, l, c) ==
  IF fps = << >> THEN 0
  ELSE (IF <<l, Head(fps).hash, c>> \in inv THEN 1 ELSE 0) + OverlapCount(Tail(fps), l, c)

FindCandidateFiles(fps, l) ==
  IF fps = << >> THEN {}
  ELSE LET minOverlap == Max(1, (Len(fps) * ThresholdPercent) \div 100)
           indexed == { t[3] : t \in inv }
       IN  { c \in indexed : OverlapCount(fps, l, c) >= 1 /\ OverlapCount(fps, l, c) >= minOverlap }

GetFileFingerprints(h, l) == { t[3] : t \in { x \in fidx : x[1] = l /\ x[2] = h } }

SeqRange(s) == { s[i] : i \in 1..Len(s) }

\* add_file_fingerprints: the triples added to inv and to fidx
AddToInv(h, fps, l) == { <<l, x.hash, h>> : x \in SeqRange(fps) }
AddToFidx(h, fps, l) == { <<l, h, x.hash>> : x \in SeqRange(fps) }

\* the locals before the pair loop starts (worker.py 277)
ZeroSim == [n |-> 0, d |-> 1]

\* the locals of one worker's pair loop: the position in the pair lists, the
\* counter, the comparison's values, whether the call of save_similarity_result
\* is the one of the try block ("result") or of the handler ("error"), and the
\* last call's return: its key, the row id, and the branch that returned it
NoPair == [i |-> 0, processed_count |-> 0, ast |-> ZeroSim, matches |-> << >>,
           mode |-> "", rkey |-> << >>, rid |-> 0, via |-> ""]

(***************************************************************************)
(* The two Redis stores with the values they hold.  A key that does not    *)
(* exist is not in the DOMAIN of its function; Redis keeps no empty set    *)
(* and no empty hash.                                                      *)
(***************************************************************************)
\* redis_cache.py 25-27: nothing cached
EmptyCache == [fp |-> << >>, ast |-> << >>, tokens |-> << >>, sim |-> << >>]

\* redis_store.py 24-26: nothing stored
EmptyStore == [tcount |-> << >>, tpos |-> << >>, thashes |-> << >>,
               acount |-> << >>, ahashes |-> << >>, sim |-> << >>]

\* a similarity result as cache_similarity_result takes it
SimResult(sim, matches) == [ast_similarity |-> sim, matches |-> matches]

\* a file as the comparison sees it: its winnowed fingerprints and its AST hashes
File(fps, ast) == [fps |-> fps, ast |-> ast]

\* what a comparison returns
NoResult == [ast_similarity |-> ZeroSim, matches |-> << >>]

\* no comparison asked for
NoCmp == [t1 |-> << >>, t2 |-> << >>, fingerprinted |-> FALSE,
          f1 |-> File(<< >>, << >>), f2 |-> File(<< >>, << >>),
          r12 |-> NoResult, r21 |-> NoResult, w12 |-> NoResult, w21 |-> NoResult,
          s12 |-> ZeroSim, analyzed |-> FALSE, compared |-> FALSE, stored |-> FALSE,
          raw |-> << >>, merged |-> << >>, matched |-> FALSE,
          cache_raw |-> << >>, cache_merged |-> << >>, cache_matched |-> FALSE]

\* inverted_index.py 27-30: no key, no ttl
NoTtl == [hash |-> << >>, file |-> << >>]

NoCall == [n |-> 0, op |-> "none", h |-> "", h2 |-> "", fps |-> << >>, ast |-> << >>,
           tokens |-> FALSE, value |-> SimResult(ZeroSim, << >>), ret |-> FALSE,
           repeat |-> FALSE]

(***************************************************************************)
(* The connection loop of __main__ (worker.py 470-489).                    *)
(***************************************************************************)
MaxRetries == 30

\* the first attempt has connected and the worker is consuming
Consuming == [attempt |-> 0, state |-> "consuming", failed |-> 0]

\* the loop is at its first attempt
Connecting == [attempt |-> 0, state |-> "connecting", failed |-> 0]

\* worker.py 480-489: the except clause of the loop, entered from an attempt
\* that had connected (the exception came out of consume_messages) or had not
AfterException(m, connected) ==
  IF m.attempt < MaxRetries - 1
  THEN [attempt |-> m.attempt + 1, state |-> "connecting",
        failed |-> IF connected THEN 0 ELSE m.failed + 1]
  ELSE [m EXCEPT !.state = "aborted", !.failed = IF connected THEN 0 ELSE @ + 1]

(***************************************************************************)
(* Initial state: nothing uploaded, empty stores, idle workers.            *)
(***************************************************************************)
InitStores ==
  /\ upl = [t \in TaskIds |-> NoUpload]
  /\ tasks = [t \in TaskIds |-> NoTask]
  /\ results = {}
  /\ queue = {}
  /\ dlq = {}
  /\ inv = {}
  /\ fidx = {}
  /\ astCache = {}
  /\ fpCache = {}
  /\ simCache = {}
  /\ redisUp = TRUE
  /\ cacheConn = [w \in Workers |-> TRUE]
  /\ connUp = [w \in Workers |-> TRUE]
  /\ faults = 0
  /\ pc = [w \in Workers |-> "idle"]
  /\ cur = [w \in Workers |-> NoMsg]
  /\ existing = [w \in Workers |-> << >>]
  /\ intra = [w \in Workers |-> << >>]
  /\ cross = [w \in Workers |-> << >>]
  /\ pending = [w \in Workers |-> ""]
  /\ pw = [w \in Workers |-> NoPair]
  /\ deliveries = [m \in MsgIds |-> 0]
  /\ acked = [m \in MsgIds |-> 0]
  /\ rejected = [m \in MsgIds |-> 0]
  /\ settle_calls = [w \in Workers |-> 0]
  /\ cache = EmptyCache
  /\ fingerprint_store = EmptyStore
  /\ call = NoCall
  /\ ttl = NoTtl

\* every worker has connected at its first attempt and is consuming
Init == InitStores /\ main = [w \in Workers |-> Consuming] /\ cmp = NoCmp

redisVars == <<inv, fidx, astCache, fpCache, simCache>>
localVars == <<existing, intra, cross, pw>>
brokerVars == <<queue, dlq, deliveries, acked, rejected, settle_calls>>

\* redis_cache.py 58-68, is_connected: a failed ping clears _connected, and
\* nothing sets it again after start-up
IsConnected(w) == cacheConn[w] /\ redisUp

(***************************************************************************)
(* The upload endpoint (router.check_plagiarism): the task row is created  *)
(* as queued, the file rows are stored, the envelope is published.         *)
(***************************************************************************)
Submit(t, u) ==
  /\ upl[t] = NoUpload
  /\ \A s \in TaskIds : s < t => upl[s] # NoUpload
  /\ upl' = [upl EXCEPT ![t] = u]
  /\ tasks' = [tasks EXCEPT ![t] = [NoTask EXCEPT !.status = "queued"]]
  /\ queue' = queue \cup {t}
  /\ UNCHANGED <<results, dlq, redisVars, redisUp, connUp, faults, pc, cur, localVars,
                 pending, deliveries, acked, rejected, settle_calls>>
  /\ UNCHANGED cacheConn
  /\ UNCHANGED <<main, storeVars>>

\* some other publisher puts a message without task_id on the queue
PublishForeign ==
  /\ deliveries[0] = 0 /\ 0 \notin queue
  /\ queue' = queue \cup {0}
  /\ UNCHANGED <<upl, tasks, results, dlq, redisVars, redisUp, connUp, faults, pc, cur,
                 localVars, pending, deliveries, acked, rejected, settle_calls>>
  /\ UNCHANGED cacheConn
  /\ UNCHANGED <<main, storeVars>>

(***************************************************************************)
(* The broker.  The task queue is declared with a dead-letter exchange     *)
(* bound to the dead-letter queue (rabbit.create_channel).                 *)
(***************************************************************************)
\* basic_reject(delivery_tag, requeue) reaching the broker
BasicReject(m, requeue) ==
  IF requeue
  THEN [queue |-> queue \cup {m}, dlq |-> dlq]
  ELSE [queue |-> queue, dlq |-> dlq \cup {m}]

\* a basic_reject with requeue=True
RejectRequeued(m) == BasicReject(m, TRUE)

\* the three basic_reject calls of process_new_message, all requeue=False
RejectDelivery(m) == BasicReject(m, FALSE)

\* basic_consume with prefetch_count=1: one unsettled delivery per worker
Receive(w, m) ==
  /\ pc[w] = "idle" /\ m \in queue
  /\ \A v \in Workers : v < w => pc[v] # "idle"   \* workers are interchangeable
  /\ queue' = queue \ {m}
  /\ cur' = [cur EXCEPT ![w] = m]
  /\ deliveries' = [deliveries EXCEPT ![m] = @ + 1]
  /\ settle_calls' = [settle_calls EXCEPT ![w] = 0]
  /\ pc' = [pc EXCEPT ![w] = "start"]
  /\ UNCHANGED <<upl, tasks, results, dlq, redisVars, redisUp, connUp, faults, localVars,
                 pending, acked, rejected>>
  /\ UNCHANGED cacheConn
  /\ UNCHANGED <<main, storeVars>>

\* The connection is lost while the callback runs (the callback blocks the
\* I/O loop, so no heartbeat is sent): the broker requeues the unsettled
\* delivery; the worker notices at its next basic_ack / basic_reject, which
\* raises.  The worker reads the connection only when it settles, so the loss
\* is placed at the start of the callback and the redelivery, which Receive
\* may take at any later moment, covers a loss at every later position.
DropConnection(w) ==
  /\ faults < MaxFaults /\ pc[w] = "start" /\ connUp[w]
  /\ connUp' = [connUp EXCEPT ![w] = FALSE]
  /\ queue' = queue \cup {cur[w]}
  /\ faults' = faults + 1
  /\ UNCHANGED <<upl, tasks, results, dlq, deliveries, acked, rejected, settle_calls,
                 redisVars, redisUp,
                 pc, cur, localVars, pending>>
  /\ UNCHANGED cacheConn
  /\ UNCHANGED <<main, storeVars>>

\* Redis stops answering; it is noticed by the next worker step that calls it
RedisPoints == {"index", "count", "pair"}

RedisDown ==
  /\ faults < MaxFaults /\ redisUp
  /\ \E w \in Workers : pc[w] \in RedisPoints
  /\ redisUp' = FALSE
  /\ faults' = faults + 1
  /\ UNCHANGED <<upl, tasks, results, brokerVars, redisVars, connUp, pc, cur, localVars,
                 pending>>
  /\ UNCHANGED cacheConn
  /\ UNCHANGED <<main, storeVars>>

\* Redis answers again
RedisBack ==
  /\ ~redisUp
  /\ redisUp' = TRUE
  /\ UNCHANGED <<upl, tasks, results, brokerVars, redisVars, connUp, faults, pc, cur,
                 localVars, pending>>
  /\ UNCHANGED cacheConn
  /\ UNCHANGED <<main, storeVars>>

\* an outage that lasts to the end of the callbacks it hit
RedisBackIdle ==
  /\ \A w \in Workers : pc[w] = "idle"
  /\ RedisBack

(***************************************************************************)
(* process_new_message, one action per store or broker call.               *)
(***************************************************************************)
Envelope(m) ==
  IF m \in TaskIds
  THEN [task_id |-> m, files |-> EnvelopeFiles(m), language |-> upl[m].language]
  ELSE [task_id |-> 0, files |-> << >>, language |-> "python"]

\* worker.py 103-132
Start(w) ==
  /\ pc[w] = "start"
  /\ LET e == Envelope(cur[w]) IN
     IF e.task_id = 0
     THEN /\ pc' = [pc EXCEPT ![w] = "reject_try"]
          /\ tasks' = tasks
     ELSE IF Len(e.files) < 2
     THEN /\ tasks' = UpdateTask(e.task_id, "failed", "few_files")
          /\ pc' = [pc EXCEPT ![w] = "reject_try"]
     ELSE /\ tasks' = UpdateTask(e.task_id, "processing", "")
          /\ pc' = [pc EXCEPT ![w] = "list"]
  /\ UNCHANGED <<upl, results, brokerVars, redisVars, redisUp, connUp, faults, cur,
                 localVars, pending>>
  /\ UNCHANGED cacheConn
  /\ UNCHANGED <<main, storeVars>>

\* worker.py 136
ListExisting(w) ==
  /\ pc[w] = "list"
  /\ existing' = [existing EXCEPT ![w] = GetAllFiles(cur[w])]
  /\ pc' = [pc EXCEPT ![w] = "index"]
  /\ UNCHANGED <<upl, tasks, results, brokerVars, redisVars, redisUp, connUp, faults, cur,
                 intra, cross, pending, pw>>
  /\ UNCHANGED cacheConn
  /\ UNCHANGED <<main, storeVars>>

RECURSIVE IndexLoop(_, _, _, _)
\* worker.py 142-180: st is the Redis state the loop has produced so far
IndexLoop(fs, l, cu, st) ==
  IF fs = << >> THEN st
  ELSE LET h == Head(fs).hash
           indexed == { x \in st.fidx : x[1] = l /\ x[2] = h } # {}
           fps == Fingerprints(h)
           asts == AstHashes(h)
           next ==
             IF ~redisUp THEN st                \* smembers raises, caught at 179
             ELSE IF indexed THEN st            \* continue at 153
             ELSE IF ~CliOk(h, l) THEN st       \* run_cli_fingerprint raises, caught at 179
             ELSE [inv  |-> st.inv \cup AddToInv(h, fps, l),
                   fidx |-> st.fidx \cup AddToFidx(h, fps, l),
                   ast  |-> IF cu /\ asts # << >> THEN st.ast \cup {h} ELSE st.ast,
                   fp   |-> IF cu /\ asts # << >> THEN st.fp \cup {h} ELSE st.fp]
       IN  IndexLoop(Tail(fs), l, cu, next)

IndexFiles(w) ==
  /\ pc[w] = "index"
  /\ LET e == Envelope(cur[w])
         st == IndexLoop(e.files, e.language, IsConnected(w),
                         [inv |-> inv, fidx |-> fidx, ast |-> astCache, fp |-> fpCache])
     IN  /\ inv' = st.inv
         /\ fidx' = st.fidx
         /\ astCache' = st.ast
         /\ fpCache' = st.fp
  /\ pc' = [pc EXCEPT ![w] = "count"]
  /\ UNCHANGED <<upl, tasks, results, brokerVars, simCache, redisUp, connUp, faults, cur,
                 localVars, pending>>
  /\ UNCHANGED cacheConn
  /\ UNCHANGED <<main, storeVars>>

RECURSIVE PairWithEach(_, _)
PairWithEach(a, fs) ==
  IF fs = << >> THEN << >> ELSE << <<a, Head(fs)>> >> \o PairWithEach(a, Tail(fs))

RECURSIVE Combinations2(_)
\* itertools.combinations(files, 2)
Combinations2(fs) ==
  IF Len(fs) < 2 THEN << >>
  ELSE PairWithEach(Head(fs), Tail(fs)) \o Combinations2(Tail(fs))

RECURSIVE CrossLoop(_, _, _, _, _)
\* worker.py 200-250: st carries cross_task_pairs and the cache keys so far
CrossLoop(fs, l, ex, cu, st) ==
  IF fs = << >> THEN st
  ELSE LET nf == Head(fs)
           h == nf.hash
           cached == cu /\ h \in st.fp
           fps == Fingerprints(h)
           cliRaises == ~cached /\ ~CliOk(h, l)
           lookupRaises == fps # << >> /\ ~redisUp
           stored == ~cached /\ ~cliRaises /\ cu /\ AstHashes(h) # << >>
           cands == FindCandidateFiles(fps, l)
           isCand(f) == f.hash \in cands
           chosen == IF cliRaises \/ lookupRaises THEN ex ELSE SelectSeq(ex, isCand)
       IN  CrossLoop(Tail(fs), l, ex, cu,
                     [cross |-> st.cross \o PairWithEach(nf, chosen),
                      fp    |-> IF stored THEN st.fp \cup {h} ELSE st.fp,
                      ast   |-> IF stored THEN st.ast \cup {h} ELSE st.ast])

\* worker.py 189-255
CountPairs(w) ==
  /\ pc[w] = "count"
  /\ LET e == Envelope(cur[w])
         st == IF existing[w] = << >>
               THEN [cross |-> << >>, fp |-> fpCache, ast |-> astCache]
               ELSE CrossLoop(e.files, e.language, existing[w], IsConnected(w),
                              [cross |-> << >>, fp |-> fpCache, ast |-> astCache])
     IN  /\ intra' = [intra EXCEPT ![w] = Combinations2(e.files)]
         /\ cross' = [cross EXCEPT ![w] = st.cross]
         /\ fpCache' = st.fp
         /\ astCache' = st.ast
         /\ cacheConn' = IF existing[w] = << >> THEN cacheConn
                         ELSE [cacheConn EXCEPT ![w] = IsConnected(w)]
  /\ pc' = [pc EXCEPT ![w] = "progress"]
  /\ UNCHANGED <<upl, tasks, results, brokerVars, inv, fidx, simCache, redisUp, connUp,
                 faults, cur, existing, pending, pw>>
  /\ UNCHANGED <<main, storeVars>>

\* worker.py 264-269: update_plagiarism_task(task_id, status, total_pairs, processed_pairs)
ProgressInit(w) ==
  /\ pc[w] = "progress"
  /\ IF UpdateTaskAccepts({"task_id", "status", "total_pairs", "processed_pairs"})
     THEN /\ tasks' = [UpdateTask(cur[w], "processing", "") EXCEPT
                         ![cur[w]].total_pairs = Len(intra[w]) + Len(cross[w]),
                         ![cur[w]].processed_pairs = 0]
          /\ pc' = [pc EXCEPT ![w] = "pair"]
          /\ pw' = [pw EXCEPT ![w] = [NoPair EXCEPT !.i = 1]]
          /\ pending' = pending
     ELSE /\ tasks' = tasks
          /\ pc' = [pc EXCEPT ![w] = "except"]
          /\ pw' = pw
          /\ pending' = [pending EXCEPT ![w] = "TypeError"]
  /\ UNCHANGED <<upl, results, brokerVars, redisVars, redisUp, connUp, faults, cur,
                 existing, intra, cross>>
  /\ UNCHANGED cacheConn
  /\ UNCHANGED <<main, storeVars>>

\* the outcome of a basic_reject call by worker w
Rejecting(w, onRaise) ==
  IF connUp[w]
  THEN /\ queue' = RejectDelivery(cur[w]).queue
       /\ dlq' = RejectDelivery(cur[w]).dlq
       /\ rejected' = [rejected EXCEPT ![cur[w]] = @ + 1]
       /\ settle_calls' = [settle_calls EXCEPT ![w] = @ + 1]
       /\ cur' = [cur EXCEPT ![w] = NoMsg]
       /\ pc' = [pc EXCEPT ![w] = "idle"]
       /\ pending' = [pending EXCEPT ![w] = ""]
       /\ existing' = [existing EXCEPT ![w] = << >>]
       /\ intra' = [intra EXCEPT ![w] = << >>]
       /\ cross' = [cross EXCEPT ![w] = << >>]
       /\ pw' = [pw EXCEPT ![w] = NoPair]
  ELSE /\ pc' = [pc EXCEPT ![w] = onRaise]
       /\ pending' = [pending EXCEPT ![w] = "AMQPError"]
       /\ settle_calls' = [settle_calls EXCEPT ![w] = @ + 1]
       /\ UNCHANGED <<queue, dlq, rejected, cur, localVars>>

\* worker.py 109 and 125: basic_reject inside the try block
RejectInTry(w) ==
  /\ pc[w] = "reject_try"
  /\ Rejecting(w, "except")
  /\ UNCHANGED <<upl, tasks, results, redisVars, redisUp, connUp, faults, deliveries, acked>>
  /\ UNCHANGED cacheConn
  /\ UNCHANGED <<main, storeVars>>

\* worker.py 419-433
Except(w) ==
  /\ pc[w] = "except"
  /\ tasks' = IF Envelope(cur[w]).task_id # 0
              THEN UpdateTask(cur[w], "failed", pending[w])
              ELSE tasks
  /\ pc' = [pc EXCEPT ![w] = "reject"]
  /\ UNCHANGED <<upl, results, brokerVars, redisVars, redisUp, connUp, faults, cur,
                 localVars, pending>>
  /\ UNCHANGED cacheConn
  /\ UNCHANGED <<main, storeVars>>

\* worker.py 434: basic_reject inside the except block
RejectInExcept(w) ==
  /\ pc[w] = "reject"
  /\ Rejecting(w, "escape")
  /\ UNCHANGED <<upl, tasks, results, redisVars, redisUp, connUp, faults, deliveries, acked>>
  /\ UNCHANGED cacheConn
  /\ UNCHANGED <<main, storeVars>>

\* worker.py 473-489: the exception leaves the callback and the connection's
\* with-block, and the next round of the loop connects again
Reconnect(w) ==
  /\ pc[w] = "escape"
  /\ queue' = queue
  /\ cur' = [cur EXCEPT ![w] = NoMsg]
  /\ main' = [main EXCEPT ![w] = [AfterException(@, TRUE) EXCEPT
                                    !.state = IF @ = "aborted" THEN @ ELSE "consuming"]]
  /\ connUp' = [connUp EXCEPT ![w] = (main'[w].state = "consuming")]
  /\ pc' = [pc EXCEPT ![w] = IF main'[w].state = "consuming" THEN "idle" ELSE "aborted"]
  /\ pending' = [pending EXCEPT ![w] = ""]
  /\ existing' = [existing EXCEPT ![w] = << >>]
  /\ intra' = [intra EXCEPT ![w] = << >>]
  /\ cross' = [cross EXCEPT ![w] = << >>]
  /\ pw' = [pw EXCEPT ![w] = NoPair]
  /\ UNCHANGED <<upl, tasks, results, dlq, redisVars, redisUp, faults, deliveries, acked,
                 rejected, settle_calls>>
  /\ UNCHANGED <<cacheConn, storeVars>>

(***************************************************************************)
(* Similarity through the cache (worker/redis_cache.py).                   *)
(***************************************************************************)
\* calculate_ast_similarity 345-354: Jaccard of set(ast_a) and set(ast_b)
SetJaccard(xs, ys) ==
  LET a == SeqRange(xs)
      b == SeqRange(ys)
  IN  IF a \cup b = {} THEN ZeroSim
      ELSE [n |-> Cardinality(a \cap b), d |-> Cardinality(a \cup b)]

\* ast_similarity >= 0.15 at worker.py 344
AtLeastPercent(x, p) == x.n * 100 >= p * x.d

MatchThresholdPercent == 15

Region(a, b) ==
  [file1 |-> [start_line |-> a.start[1], start_col |-> a.start[2],
              end_line |-> a.end[1], end_col |-> a.end[2]],
   file2 |-> [start_line |-> b.start[1], start_col |-> b.start[2],
              end_line |-> b.end[1], end_col |-> b.end[2]]]

RECURSIVE RegionsWith(_, _)
RegionsWith(a, fb) ==
  IF fb = << >> THEN << >>
  ELSE (IF Head(fb).hash = a.hash THEN << Region(a, Head(fb)) >> ELSE << >>)
       \o RegionsWith(a, Tail(fb))

RECURSIVE FindMatchingRegions(_, _)
\* find_matching_regions 376-411: every anchor of a common hash in file a with
\* every anchor of that hash in file b (listed here in the order of file a)
FindMatchingRegions(fa, fb) ==
  IF fa = << >> THEN << >>
  ELSE RegionsWith(Head(fa), fb) \o FindMatchingRegions(Tail(fa), fb)

Before(m1, m2) ==
  \/ m1.file1.start_line < m2.file1.start_line
  \/ /\ m1.file1.start_line = m2.file1.start_line
     /\ m1.file1.start_col < m2.file1.start_col

RECURSIVE InsertSorted(_, _)
InsertSorted(m, ms) ==
  IF ms = << >> THEN << m >>
  ELSE IF Before(m, Head(ms)) THEN << m >> \o ms
  ELSE << Head(ms) >> \o InsertSorted(m, Tail(ms))

RECURSIVE SortMatches(_)
\* sorted(matches, key = (file1.start_line, file1.start_col)), stable
SortMatches(ms) ==
  IF ms = << >> THEN << >>
  ELSE InsertSorted(ms[Len(ms)], SortMatches(SubSeq(ms, 1, Len(ms) - 1)))

MaxLineGap == 1
MaxColGap == 5

Extend(last, m) ==
  [file1 |-> [last.file1 EXCEPT !.end_line = Max(@, m.file1.end_line),
                                !.end_col = Max(@, m.file1.end_col)],
   file2 |-> [last.file2 EXCEPT !.end_line = Max(@, m.file2.end_line),
                                !.end_col = Max(@, m.file2.end_col)]]

RECURSIVE MergeLoop(_, _)
MergeLoop(merged, rest) ==
  IF rest = << >> THEN merged
  ELSE LET m == Head(rest)
           last == merged[Len(merged)]
       IN  IF /\ m.file1.start_line <= last.file1.end_line + MaxLineGap
              /\ m.file1.start_col - last.file1.end_col <= MaxColGap
           THEN MergeLoop([merged EXCEPT ![Len(merged)] = Extend(last, m)], Tail(rest))
           ELSE MergeLoop(Append(merged, m), Tail(rest))

\* merge_adjacent_matches 500-522
MergeAdjacentMatches(ms) ==
  IF ms = << >> THEN << >>
  ELSE LET sorted == SortMatches(ms) IN MergeLoop(<< sorted[1] >>, Tail(sorted))

\* worker.py 348-354
MatchesData(merged) ==
  [k \in 1..Len(merged) |->
     [file_a_start_line |-> merged[k].file1.start_line,
      file_a_end_line   |-> merged[k].file1.end_line,
      file_b_start_line |-> merged[k].file2.start_line,
      file_b_end_line   |-> merged[k].file2.end_line]]

\* _get_similarity_cache_key: the two hashes sorted
HashRank(h) == CASE h = "hA" -> 1 [] h = "hB" -> 2 [] OTHER -> 3

\* a key that keeps the order of the arguments
UnsortedHashes(ha, hb) == <<ha, hb>>

\* _get_similarity_cache_key 316-319: the key names the sorted pair
SortedHashes(ha, hb) == IF HashRank(ha) <= HashRank(hb) THEN <<ha, hb>> ELSE <<hb, ha>>

CachedSimilarity(ha, hb) == { e \in simCache : e.key = SortedHashes(ha, hb) }

(***************************************************************************)
(* The pair loop (worker.py 277-400) and save_similarity_result.           *)
(***************************************************************************)
\* the loops of 390-400 in the other order
CrossPairsFirst(w) == cross[w] \o intra[w]

\* worker.py 390-400: the loop over intra_task_pairs, then the loop over
\* cross_task_pairs
AllPairs(w) == intra[w] \o cross[w]

TotalPairs(w) == Len(intra[w]) + Len(cross[w])

CurrentPair(w) == AllPairs(w)[pw[w].i]

\* worker.py 290-296: a file entry without id, path or hash
MissingInfo(f) == f.id = 0 \/ f.hash = ""

\* the pair after pair i, or the end of the loops at 393-400
AdvanceTo(w, loc) ==
  /\ pw' = [pw EXCEPT ![w] = [loc EXCEPT !.i = @ + 1, !.mode = ""]]
  /\ pc' = [pc EXCEPT ![w] = IF loc.i + 1 > TotalPairs(w) THEN "complete" ELSE "pair"]

\* worker.py 298-357: the comparison of the current pair, up to the call of
\* save_similarity_result; an exception goes to the handler at 378
ProcessPair(w) ==
  /\ pc[w] = "pair"
  /\ LET a == CurrentPair(w)[1]
         b == CurrentPair(w)[2]
         l == Envelope(cur[w]).language
         cu == IsConnected(w)
         hit == IF cu THEN CachedSimilarity(a.hash, b.hash) ELSE {}
         needA == ~(cu /\ a.hash \in astCache)
         needB == ~(cu /\ b.hash \in astCache)
         raises == (needA /\ ~CliOk(a.hash, l)) \/ (needB /\ ~CliOk(b.hash, l))
         putA == needA /\ cu /\ AstHashes(a.hash) # << >>
         putB == needB /\ cu /\ AstHashes(b.hash) # << >>
         ast1 == astCache \cup (IF putA THEN {a.hash} ELSE {}) \cup (IF putB THEN {b.hash} ELSE {})
         fp1 == fpCache \cup (IF putA THEN {a.hash} ELSE {}) \cup (IF putB THEN {b.hash} ELSE {})
         sim == IF cu /\ a.hash \in ast1 /\ b.hash \in ast1
                THEN SetJaccard(AstHashes(a.hash), AstHashes(b.hash))
                ELSE ZeroSim
         raw == IF cu /\ a.hash \in fp1 /\ b.hash \in fp1
                THEN FindMatchingRegions(Fingerprints(a.hash), Fingerprints(b.hash))
                ELSE << >>
         md == IF AtLeastPercent(sim, MatchThresholdPercent)
               THEN MatchesData(MergeAdjacentMatches(raw))
               ELSE << >>
     IN  IF MissingInfo(a) \/ MissingInfo(b)
         THEN /\ AdvanceTo(w, pw[w])
              /\ UNCHANGED <<astCache, fpCache, simCache, pending, cacheConn>>
         ELSE IF hit # {}
         THEN /\ pw' = [pw EXCEPT ![w].ast = (CHOOSE e \in hit : TRUE).ast,
                                  ![w].matches = (CHOOSE e \in hit : TRUE).matches,
                                  ![w].mode = "result"]
              /\ pc' = [pc EXCEPT ![w] = "save_select"]
              /\ cacheConn' = [cacheConn EXCEPT ![w] = cu]
              /\ UNCHANGED <<astCache, fpCache, simCache, pending>>
         ELSE IF raises
         THEN \* the first file is cached before the second one's CLI run fails
              /\ astCache' = IF needA /\ ~CliOk(a.hash, l) THEN astCache
                             ELSE astCache \cup (IF putA THEN {a.hash} ELSE {})
              /\ fpCache' = IF needA /\ ~CliOk(a.hash, l) THEN fpCache
                            ELSE fpCache \cup (IF putA THEN {a.hash} ELSE {})
              /\ pw' = [pw EXCEPT ![w].mode = "error"]
              /\ pending' = [pending EXCEPT ![w] = "RuntimeError"]
              /\ pc' = [pc EXCEPT ![w] = "save_select"]
              /\ cacheConn' = [cacheConn EXCEPT ![w] = cu]
              /\ UNCHANGED simCache
         ELSE /\ astCache' = ast1
              /\ fpCache' = fp1
              /\ simCache' = IF cu
                             THEN { e \in simCache : e.key # SortedHashes(a.hash, b.hash) }
                                  \cup { [key |-> SortedHashes(a.hash, b.hash), ast |-> sim,
                                          matches |-> md, file_a_hash |-> a.hash,
                                          file_b_hash |-> b.hash] }
                             ELSE simCache
              /\ pw' = [pw EXCEPT ![w].ast = sim, ![w].matches = md, ![w].mode = "result"]
              /\ pc' = [pc EXCEPT ![w] = "save_select"]
              /\ cacheConn' = [cacheConn EXCEPT ![w] = cu]
              /\ UNCHANGED pending
  /\ UNCHANGED <<upl, tasks, results, brokerVars, inv, fidx, redisUp, connUp, faults, cur,
                 existing, intra, cross>>
  /\ UNCHANGED <<main, storeVars>>

\* a SELECT whose filter matches no row
NoRowsFound(t, a, b) == {}

\* the rows the SELECT of save_similarity_result returns (crud.py 79-85)
ExistingRows(t, a, b) ==
  { r \in results : r.task_id = t /\ r.file_a_id = a /\ r.file_b_id = b }

\* a fresh uuid4, as if the row had been inserted
FreshRowId(rows) == Cardinality(results) + 1

\* crud.py 87-89 and 116-117: str(existing[0].id)
ExistingRowId(rows) == (CHOOSE r \in rows : TRUE).id

\* a result table without the unique index
NoUniqueIndex(t, a, b) == FALSE

\* idx_similarity_unique_pair on (task_id, file_a_id, file_b_id)
UniqueViolation(t, a, b) ==
  \E r \in results : r.task_id = t /\ r.file_a_id = a /\ r.file_b_id = b

\* uuid4() for the new row
NewRowId == Cardinality(results) + 1

\* crud.py 91-99
NewRow(w) ==
  LET a == CurrentPair(w)[1]
      b == CurrentPair(w)[2]
  IN  [id |-> NewRowId, task_id |-> cur[w], file_a_id |-> a.id, file_b_id |-> b.id,
       ast_similarity |-> IF pw[w].mode = "error" THEN NULL ELSE pw[w].ast,
       matches |-> IF pw[w].mode = "error" THEN << >> ELSE pw[w].matches,
       error |-> IF pw[w].mode = "error" THEN pending[w] ELSE ""]

ProgressEvery == 10

\* what follows the return of save_similarity_result with row id rid:
\*  in the try block (359-376): the counter, then the progress update every
\*  ProgressEvery pairs and after the last one, whose call raises into 378;
\*  in the handler (382-388): the counter
AfterSave(w, rid, via) ==
  LET n == pw[w].processed_count + 1
      loc == [pw[w] EXCEPT !.processed_count = n, !.rid = rid, !.via = via,
                           !.rkey = <<CurrentPair(w)[1].id, CurrentPair(w)[2].id>>]
  IN  IF pw[w].mode = "result"
      THEN IF n % ProgressEvery = 0 \/ n = TotalPairs(w)
           THEN IF UpdateTaskAccepts({"task_id", "status", "processed_pairs"})
                THEN /\ tasks' = [UpdateTask(cur[w], "processing", "") EXCEPT
                                    ![cur[w]].processed_pairs = n]
                     /\ AdvanceTo(w, loc)
                     /\ pending' = pending
                ELSE /\ tasks' = tasks
                     /\ pw' = [pw EXCEPT ![w] = [loc EXCEPT !.mode = "error"]]
                     /\ pending' = [pending EXCEPT ![w] = "TypeError"]
                     /\ pc' = [pc EXCEPT ![w] = "save_select"]
           ELSE /\ AdvanceTo(w, loc)
                /\ UNCHANGED <<tasks, pending>>
      ELSE /\ AdvanceTo(w, loc)
           /\ pending' = [pending EXCEPT ![w] = ""]
           /\ tasks' = tasks

\* crud.py 79-89
SaveSelect(w) ==
  /\ pc[w] = "save_select"
  /\ LET rows == ExistingRows(cur[w], CurrentPair(w)[1].id, CurrentPair(w)[2].id)
     IN  IF rows # {}
         THEN AfterSave(w, ExistingRowId(rows), "select")
         ELSE /\ pc' = [pc EXCEPT ![w] = "save_commit"]
              /\ UNCHANGED <<tasks, pw, pending>>
  /\ UNCHANGED <<upl, results, brokerVars, redisVars, redisUp, connUp, faults, cur,
                 existing, intra, cross>>
  /\ UNCHANGED cacheConn
  /\ UNCHANGED <<main, storeVars>>

\* crud.py 100-107: the INSERT and COMMIT, or the IntegrityError
SaveCommit(w) ==
  /\ pc[w] = "save_commit"
  /\ IF UniqueViolation(cur[w], CurrentPair(w)[1].id, CurrentPair(w)[2].id)
     THEN /\ pc' = [pc EXCEPT ![w] = "save_reselect"]
          /\ UNCHANGED <<results, tasks, pw, pending>>
     ELSE /\ results' = results \cup {NewRow(w)}
          /\ AfterSave(w, NewRowId, "insert")
  /\ UNCHANGED <<upl, brokerVars, redisVars, redisUp, connUp, faults, cur,
                 existing, intra, cross>>
  /\ UNCHANGED cacheConn
  /\ UNCHANGED <<main, storeVars>>

\* crud.py 107-118: after the rollback, the row the other session stored
SaveReselect(w) ==
  /\ pc[w] = "save_reselect"
  /\ LET rows == ExistingRows(cur[w], CurrentPair(w)[1].id, CurrentPair(w)[2].id)
     IN  IF rows # {}
         THEN AfterSave(w, ExistingRowId(rows), "reselect")
         ELSE \* the IntegrityError is raised again
              IF pw[w].mode = "result"
              THEN /\ pw' = [pw EXCEPT ![w].mode = "error"]
                   /\ pending' = [pending EXCEPT ![w] = "IntegrityError"]
                   /\ pc' = [pc EXCEPT ![w] = "save_select"]
                   /\ tasks' = tasks
              ELSE /\ pending' = [pending EXCEPT ![w] = "IntegrityError"]
                   /\ pc' = [pc EXCEPT ![w] = "except"]
                   /\ UNCHANGED <<tasks, pw>>
  /\ UNCHANGED <<upl, results, brokerVars, redisVars, redisUp, connUp, faults, cur,
                 existing, intra, cross>>
  /\ UNCHANGED cacheConn
  /\ UNCHANGED <<main, storeVars>>

\* worker.py 403-417: the final update_plagiarism_task, then basic_ack
Complete(w) ==
  /\ pc[w] = "complete"
  /\ IF UpdateTaskAccepts({"task_id", "status", "similarity", "matches",
                           "total_pairs", "processed_pairs"})
     THEN /\ tasks' = [UpdateTask(cur[w], "completed", "") EXCEPT
                         ![cur[w]].total_pairs = TotalPairs(w),
                         ![cur[w]].processed_pairs = pw[w].processed_count]
          /\ pc' = [pc EXCEPT ![w] = "ack"]
          /\ pending' = pending
     ELSE /\ tasks' = tasks
          /\ pc' = [pc EXCEPT ![w] = "except"]
          /\ pending' = [pending EXCEPT ![w] = "TypeError"]
  /\ UNCHANGED <<upl, results, brokerVars, redisVars, redisUp, connUp, faults, cur,
                 localVars>>
  /\ UNCHANGED cacheConn
  /\ UNCHANGED <<main, storeVars>>

(***************************************************************************)
(* The pair phase on its own: in Spec the call at worker.py 264 raises     *)
(* before the loop starts, so the loop is entered here from the lists that *)
(* phase 1 has built, without that call.                                   *)
(***************************************************************************)
EnterPairs(w) ==
  /\ pc[w] = "progress"
  /\ pw' = [pw EXCEPT ![w] = [NoPair EXCEPT !.i = 1]]
  /\ pc' = [pc EXCEPT ![w] = "pair"]
  /\ UNCHANGED <<upl, tasks, results, brokerVars, redisVars, redisUp, connUp, faults, cur,
                 existing, intra, cross, pending>>
  /\ UNCHANGED cacheConn
  /\ UNCHANGED <<main, storeVars>>

Next ==
  \/ \E t \in TaskIds, u \in Uploads : Submit(t, u)
  \/ PublishForeign
  \/ \E w \in Workers, m \in MsgIds : Receive(w, m)
  \/ \E w \in Workers : DropConnection(w)
  \/ RedisDown
  \/ RedisBack
  \/ \E w \in Workers : Start(w)
  \/ \E w \in Workers : ListExisting(w)
  \/ \E w \in Workers : IndexFiles(w)
  \/ \E w \in Workers : CountPairs(w)
  \/ \E w \in Workers : ProgressInit(w)
  \/ \E w \in Workers : RejectInTry(w)
  \/ \E w \in Workers : Except(w)
  \/ \E w \in Workers : RejectInExcept(w)
  \/ \E w \in Workers : Reconnect(w)

Spec == Init /\ [][Next]_vars

PairUploads == { u \in Uploads : Len(u.hashes) >= 2 /\ SupportedLanguage(u.language) }

\* Uploads of two contents that share a fingerprint on different lines: both
\* in one task, in either order, and each in a task of its own
ReuseUploads ==
  { [hashes |-> <<"hA", "hD">>, language |-> "python"],
    [hashes |-> <<"hD", "hA">>, language |-> "python"],
    [hashes |-> <<"hA", "hA">>, language |-> "python"],
    [hashes |-> <<"hD", "hD">>, language |-> "python"] }

\* the pair phase without faults, for the reuse of cached pair results
NextReuse ==
  \/ \E t \in TaskIds, u \in ReuseUploads : Submit(t, u)
  \/ \E w \in Workers, m \in TaskIds : Receive(w, m)
  \/ \E w \in Workers : Start(w)
  \/ \E w \in Workers : ListExisting(w)
  \/ \E w \in Workers : IndexFiles(w)
  \/ \E w \in Workers : CountPairs(w)
  \/ \E w \in Workers : EnterPairs(w)
  \/ \E w \in Workers : ProcessPair(w)
  \/ \E w \in Workers : SaveSelect(w)
  \/ \E w \in Workers : SaveCommit(w)
  \/ \E w \in Workers : Complete(w)
  \/ \E w \in Workers : Except(w)
  \/ \E w \in Workers : RejectInExcept(w)

ReuseSpec == Init /\ [][NextReuse]_vars

NextPairs ==
  \/ \E t \in TaskIds, u \in PairUploads : Submit(t, u)
  \/ \E w \in Workers, m \in TaskIds : Receive(w, m)
  \/ \E w \in Workers : DropConnection(w)
  \/ RedisDown
  \/ RedisBackIdle
  \/ \E w \in Workers : Start(w)
  \/ \E w \in Workers : ListExisting(w)
  \/ \E w \in Workers : IndexFiles(w)
  \/ \E w \in Workers : CountPairs(w)
  \/ \E w \in Workers : EnterPairs(w)
  \/ \E w \in Workers : ProcessPair(w)
  \/ \E w \in Workers : SaveSelect(w)
  \/ \E w \in Workers : SaveCommit(w)
  \/ \E w \in Workers : SaveReselect(w)
  \/ \E w \in Workers : Complete(w)
  \/ \E w \in Workers : Except(w)
  \/ \E w \in Workers : RejectInExcept(w)
  \/ \E w \in Workers : Reconnect(w)

PairSpec == Init /\ [][NextPairs]_vars

(***************************************************************************)
(* Properties.                                                             *)
(***************************************************************************)
Submitted(t) == tasks[t].status # "none"

Quiescent == \A w \in Workers : pc[w] = "idle"

\* the setup errors the specification names: too few files, unsupported language
SetupError(t) == Len(upl[t].hashes) < 2 \/ ~SupportedLanguage(upl[t].language)

StatusMoves ==
  { <<"none", "queued">>, <<"queued", "processing">>,
    <<"processing", "completed">>, <<"processing", "failed">> }

\* C3: a task's status only moves queued -> processing -> completed or
\* queued -> processing -> failed (after its creation as queued), so that a
\* status of completed or failed is never replaced by a different one.
C3_StatusOnlyMovesForward ==
  [][\A t \in TaskIds :
       tasks'[t].status # tasks[t].status
         => <<tasks[t].status, tasks'[t].status>> \in StatusMoves]_vars

\* C4: a task ends as failed only on a setup error; a task of two or more
\* files in a supported language is never failed.
C4_FailedOnlyOnSetupError ==
  \A t \in TaskIds : tasks[t].status = "failed" => SetupError(t)

ScheduledPairs(w) == intra[w] \o cross[w]

PairIds(p) == {p[1].id, p[2].id}

\* C6: the pairs scheduled for one task, intra-task then cross-task, hold no
\* pair of a file with itself and no two pairs of the same two file ids, in
\* either order.
C6_ScheduledPairsDistinct ==
  \A w \in Workers :
    LET ps == ScheduledPairs(w)
    IN  /\ \A k \in 1..Len(ps) : ps[k][1].id # ps[k][2].id
        /\ \A j, k \in 1..Len(ps) : j # k => PairIds(ps[j]) # PairIds(ps[k])

\* a worker has built the lists of a task with an intra-task pair and
\* cross-task pairs of each of its files
C6_Witness ==
  \E w \in Workers :
    /\ pc[w] = "progress"
    /\ Len(intra[w]) >= 1
    /\ Len(cross[w]) >= 2
    /\ \E j, k \in 1..Len(cross[w]) : cross[w][j][1].id # cross[w][k][1].id

PairPositions == {"pair", "save_select", "save_commit", "save_reselect", "complete", "ack"}

C10_RejectedIsDeadLettered ==
  [][\A m \in MsgIds :
       rejected'[m] > rejected[m]
         => /\ m \in dlq'
            /\ (m \in queue' => m \in queue)
            /\ acked'[m] = acked[m]]_vars

\* all three kinds have been rejected: the foreign envelope, a task of one
\* file, and a task of two files whose handling raised
C10_Witness ==
  /\ 0 \in dlq /\ rejected[0] = 1
  /\ \E t, u \in TaskIds :
       /\ t \in dlq /\ Len(upl[t].hashes) < 2 /\ rejected[t] >= 1
       /\ u \in dlq /\ Len(upl[u].hashes) >= 2 /\ rejected[u] >= 1
       /\ tasks[u].error = "TypeError"
  /\ queue = {}

RowsOf(t) == { r \in results : r.task_id = t }

\* the content hash of the file with the given id
HashOfFile(id) == upl[id \div 10].hashes[id % 10]

Handled == {"complete", "except", "reject", "escape"}

\* C1: however often a task's envelope is delivered, the result store never
\* holds two rows of the same task for the same unordered pair of files.
C1_NoDuplicateRows ==
  \A r1, r2 \in results :
    (r1.task_id = r2.task_id
       /\ {r1.file_a_id, r1.file_b_id} = {r2.file_a_id, r2.file_b_id})
      => r1 = r2

\* two workers have both gone through all pairs of the same envelope, which
\* was delivered twice, and its rows are stored
C1_Witness ==
  \E w, v \in Workers :
    /\ w # v /\ cur[w] = cur[v] /\ cur[w] \in TaskIds
    /\ deliveries[cur[w]] >= 2
    /\ pc[w] = "complete" /\ pc[v] \in Handled
    /\ pw[v].processed_count >= TotalPairs(v)
    /\ Cardinality(RowsOf(cur[w])) = TotalPairs(w)

FileIdsInRows == UNION { {r.file_a_id, r.file_b_id} : r \in results }

StoreAst(ha, hb) == SetJaccard(AstHashes(ha), AstHashes(hb))

StoreMatches(ha, hb) ==
  IF AtLeastPercent(StoreAst(ha, hb), MatchThresholdPercent)
  THEN MatchesData(MergeAdjacentMatches(
         FindMatchingRegions(Fingerprints(ha), Fingerprints(hb))))
  ELSE << >>

InCallback(w) == pc[w] \notin {"idle", "escape"}

\* the I/O loop of worker w's connection is being served
IoLoopServed(w) == ~InCallback(w)

\* the positions where the files of the task are indexed and its pairs are
\* scheduled and compared
TaskWork == {"index", "count", "progress"} \cup PairPositions

\* C12: the delivery callback does not block the bus I/O loop: while the
\* task's files are indexed and its pairs scheduled and compared, the callback
\* has returned and the I/O loop is served.
C12_CallbackDoesNotBlock ==
  \A w \in Workers : pc[w] \in TaskWork => IoLoopServed(w)

(***************************************************************************)
(* The connection loop on its own: the bus may refuse a connection and an  *)
(* established connection may be lost while the worker waits for a         *)
(* delivery.                                                               *)
(***************************************************************************)
\* worker.py 473-475: get_connection() raises
ConnectFails(w) ==
  /\ main[w].state = "connecting"
  /\ main' = [main EXCEPT ![w] = AfterException(@, FALSE)]
  /\ UNCHANGED <<upl, tasks, results, brokerVars, redisVars, redisUp, cacheConn, connUp,
                 faults, pc, cur, localVars, pending, storeVars>>

\* worker.py 473-478: connected, channel declared, consuming
ConnectSucceeds(w) ==
  /\ main[w].state = "connecting"
  /\ main' = [main EXCEPT ![w].state = "consuming", ![w].failed = 0]
  /\ UNCHANGED <<upl, tasks, results, brokerVars, redisVars, redisUp, cacheConn, connUp,
                 faults, pc, cur, localVars, pending, storeVars>>

\* worker.py 478-480: start_consuming raises (connection lost while waiting)
ConsumeRaises(w) ==
  /\ main[w].state = "consuming" /\ pc[w] = "idle"
  /\ main' = [main EXCEPT ![w] = AfterException(@, TRUE)]
  /\ UNCHANGED <<upl, tasks, results, brokerVars, redisVars, redisUp, cacheConn, connUp,
                 faults, pc, cur, localVars, pending, storeVars>>

\* every worker is at the first attempt of its loop
RetryInit == InitStores /\ main = [w \in Workers |-> Connecting] /\ cmp = NoCmp

NextRetry ==
  \/ \E w \in Workers : ConnectFails(w)
  \/ \E w \in Workers : ConnectSucceeds(w)
  \/ \E w \in Workers : ConsumeRaises(w)

RetrySpec == RetryInit /\ [][NextRetry]_vars

\* C13: the worker aborts after the 30th connection attempt in a row that
\* failed, and never before 30 attempts in a row have failed.
C13_AbortsAfterThirtyFailures ==
  \A w \in Workers :
    /\ main[w].state = "aborted" => main[w].failed >= MaxRetries
    /\ main[w].failed >= MaxRetries => main[w].state = "aborted"

(***************************************************************************)
(* The fingerprint stores on their own: PlagiarismCache of the worker      *)
(* (worker/redis_cache.py) and RedisFingerprintStore of the API            *)
(* (src/plagiarism/redis_store.py), driven with calls in any order.  The   *)
(* lookups are operators on the stored values.                             *)
(***************************************************************************)
MaxCalls == 3

\* winnowed fingerprint lists: none (a file shorter than the k-gram), two
\* hashes, and a hash that comes back at a later position
FpLists == { << >>, <<Fp(1, 0), Fp(2, 1)>>, <<Fp(1, 0), Fp(2, 1), Fp(1, 2)>> }

\* hash_ast_subtrees: no subtree of the minimal depth, two subtrees, and the
\* same subtree twice
AstLists == { << >>, <<10, 11>>, <<10, 10>> }

SimResults == { SimResult(ZeroSim, << >>),
                SimResult([n |-> 1, d |-> 2], << Region(Fp(1, 0), Fp(1, 2)) >>) }

StoreHashes == {"hA", "hB"}

\* SET / HSET / SADD of key k on the keys of one prefix
SetKey(f, k, v) == [x \in DOMAIN f \cup {k} |-> IF x = k THEN v ELSE f[x]]
\* DEL of key k, and its expiry
DelKey(f, k) == [x \in DOMAIN f \ {k} |-> f[x]]
\* the value under k, or what the caller reads for a missing key
ValueOr(f, k, missing) == IF k \in DOMAIN f THEN f[k] ELSE missing

\* ---- PlagiarismCache ----
\* cache_fingerprints without the validation of lines 102-105
CacheFingerprintsAnyAst(c, connected, h, fps, ast, tokens) ==
  IF ~connected THEN c
  ELSE [c EXCEPT !.fp = SetKey(@, h, fps),
                 !.ast = SetKey(@, h, ast),
                 !.tokens = IF tokens THEN SetKey(@, h, "tokens") ELSE @]

\* cache_fingerprints 82-152; connected is what is_connected answers
CacheFingerprints(c, connected, h, fps, ast, tokens) ==
  IF ~connected THEN c
  ELSE IF ast = << >> THEN c
  ELSE [c EXCEPT !.fp = SetKey(@, h, fps),
                 !.ast = SetKey(@, h, ast),
                 !.tokens = IF tokens THEN SetKey(@, h, "tokens") ELSE @]

\* the return value of cache_fingerprints
CacheFingerprintsRet(connected, ast) == connected /\ ast # << >>

\* get_fingerprints 154-177
GetFingerprints(c, connected, h) ==
  IF connected /\ h \in DOMAIN c.fp THEN [found |-> TRUE, value |-> c.fp[h]]
  ELSE [found |-> FALSE, value |-> << >>]

\* get_ast_hashes 179-201
GetAstHashes(c, connected, h) ==
  IF connected /\ h \in DOMAIN c.ast THEN [found |-> TRUE, value |-> c.ast[h]]
  ELSE [found |-> FALSE, value |-> << >>]

\* has_ast_fingerprints 203-220
HasAstFingerprints(c, connected, h) == connected /\ h \in DOMAIN c.ast

\* delete_cache 251-275
DeleteCache(c, connected, h) ==
  IF ~connected THEN c
  ELSE [c EXCEPT !.fp = DelKey(@, h), !.ast = DelKey(@, h), !.tokens = DelKey(@, h)]

\* cache_similarity_result 413-449
CacheSimilarityResult(c, connected, ha, hb, r) ==
  IF ~connected THEN c
  ELSE [c EXCEPT !.sim = SetKey(@, SortedHashes(ha, hb),
                                [ast_similarity |-> r.ast_similarity, matches |-> r.matches,
                                 file_a_hash |-> ha, file_b_hash |-> hb])]

\* get_cached_similarity 451-481
GetCachedSimilarity(c, connected, ha, hb) ==
  IF connected /\ SortedHashes(ha, hb) \in DOMAIN c.sim
  THEN [found |-> TRUE,
        value |-> SimResult(c.sim[SortedHashes(ha, hb)].ast_similarity,
                            c.sim[SortedHashes(ha, hb)].matches)]
  ELSE [found |-> FALSE, value |-> SimResult(ZeroSim, << >>)]

\* ---- RedisFingerprintStore ----
RECURSIVE HSetPositions(_, _)
\* store_token_fingerprints 51-58: HSET of every fingerprint's position
\* under its hash, a later one replacing an earlier one
HSetPositions(pos, fps) ==
  IF fps = << >> THEN pos
  ELSE HSetPositions(SetKey(pos, Head(fps).hash,
                            [start |-> Head(fps).start, end |-> Head(fps).end]),
                     Tail(fps))

\* store_token_fingerprints that leaves out the SADD of line 60
StoreTokenWithoutSadd(s, h, fps) ==
  [s EXCEPT !.tcount = SetKey(@, h, Len(fps)),
            !.tpos = IF fps = << >> THEN @
                     ELSE SetKey(@, h, HSetPositions(ValueOr(@, h, << >>), fps))]

\* store_token_fingerprints 32-68
StoreTokenFingerprints(s, h, fps) ==
  [s EXCEPT !.tcount = SetKey(@, h, Len(fps)),
            !.tpos = IF fps = << >> THEN @
                     ELSE SetKey(@, h, HSetPositions(ValueOr(@, h, << >>), fps)),
            !.thashes = IF fps = << >> THEN @
                        ELSE SetKey(@, h, ValueOr(@, h, {}) \cup { x.hash : x \in SeqRange(fps) })]

\* get_token_fingerprints 70-96
GetTokenFingerprints(s, h) ==
  IF h \in DOMAIN s.thashes
  THEN [found |-> TRUE, hashes |-> s.thashes[h], positions |-> ValueOr(s.tpos, h, << >>),
        count |-> ValueOr(s.tcount, h, 0)]
  ELSE [found |-> FALSE, hashes |-> {}, positions |-> << >>, count |-> 0]

\* has_token_fingerprints 98-101
HasTokenFingerprints(s, h) == h \in DOMAIN s.thashes

\* store_ast_fingerprints that adds to the count of line 124 instead of setting it
StoreAstAddingCount(s, h, ast) ==
  IF ast = << >> THEN s
  ELSE [s EXCEPT !.acount = SetKey(@, h, ValueOr(@, h, 0) + Len(ast)),
                 !.ahashes = SetKey(@, h, ValueOr(@, h, {}) \cup SeqRange(ast))]

\* store_ast_fingerprints 107-131
StoreAstFingerprints(s, h, ast) ==
  IF ast = << >> THEN s
  ELSE [s EXCEPT !.acount = SetKey(@, h, Len(ast)),
                 !.ahashes = SetKey(@, h, ValueOr(@, h, {}) \cup SeqRange(ast))]

\* get_ast_fingerprints 133-145
GetAstFingerprints(s, h) ==
  IF h \in DOMAIN s.ahashes THEN [found |-> TRUE, value |-> s.ahashes[h]]
  ELSE [found |-> FALSE, value |-> {}]

\* has_ast_fingerprints 147-150
StoreHasAstFingerprints(s, h) == h \in DOMAIN s.ahashes

\* RedisFingerprintStore.calculate_ast_similarity 204-239: SINTER of the two
\* sets over count_a + count_b - |intersection|, the counts read from the
\* :count keys
CalculateAstSimilarity(s, ha, hb) ==
  IF ha \notin DOMAIN s.ahashes \/ hb \notin DOMAIN s.ahashes THEN ZeroSim
  ELSE LET count_a == ValueOr(s.acount, ha, 0)
           count_b == ValueOr(s.acount, hb, 0)
           intersection_size == Cardinality(s.ahashes[ha] \cap s.ahashes[hb])
           union_size == count_a + count_b - intersection_size
       IN  IF count_a = 0 \/ count_b = 0 \/ union_size = 0 THEN ZeroSim
           ELSE [n |-> intersection_size, d |-> union_size]

\* redis_analyzer.py 94-116, _ensure_fingerprints_in_redis for a file of
\* content h; the tokenizer raises on a file it cannot read
EnsureFingerprintsInRedis(s, h) ==
  LET has_token == HasTokenFingerprints(s, h)
      has_ast == StoreHasAstFingerprints(s, h)
      s1 == IF has_token THEN s ELSE StoreTokenFingerprints(s, h, Fingerprints(h))
  IN  IF has_token /\ has_ast THEN s
      ELSE IF ~Readable(h) THEN s
      ELSE IF has_ast THEN s1
      ELSE StoreAstFingerprints(s1, h, AstHashes(h))

\* delete_file_fingerprints 295-312
DeleteFileFingerprints(s, h) ==
  [s EXCEPT !.thashes = DelKey(@, h), !.tpos = DelKey(@, h), !.tcount = DelKey(@, h),
            !.ahashes = DelKey(@, h), !.acount = DelKey(@, h)]

\* RedisFingerprintStore.cache_similarity_result 261-275
StoreCacheSimilarityResult(s, ha, hb, r) ==
  [s EXCEPT !.sim = SetKey(@, SortedHashes(ha, hb),
                           [ast_similarity |-> r.ast_similarity, matches |-> r.matches])]

\* RedisFingerprintStore.get_cached_similarity 277-289
StoreGetCachedSimilarity(s, ha, hb) ==
  IF SortedHashes(ha, hb) \in DOMAIN s.sim
  THEN [found |-> TRUE,
        value |-> SimResult(s.sim[SortedHashes(ha, hb)].ast_similarity,
                            s.sim[SortedHashes(ha, hb)].matches)]
  ELSE [found |-> FALSE, value |-> SimResult(ZeroSim, << >>)]

\* ---- the calls ----
\* the record of a call: its number, its arguments, what it returned, and
\* whether the call before it was the same call with the same arguments
Called(op, h, h2, fps, ast, tokens, value, ret) ==
  [n |-> call.n + 1, op |-> op, h |-> h, h2 |-> h2, fps |-> fps, ast |-> ast,
   tokens |-> tokens, value |-> value, ret |-> ret,
   repeat |-> /\ call.op = op /\ call.h = h /\ call.h2 = h2 /\ call.fps = fps
              /\ call.ast = ast /\ call.tokens = tokens /\ call.value = value
              /\ call.ret = ret]

systemVars == <<upl, tasks, results, brokerVars, redisVars, redisUp, cacheConn, connUp,
                faults, pc, cur, localVars, pending, main, cmp>>

CacheFingerprintsCall(connected, h, fps, ast, tokens) ==
  /\ call.n < MaxCalls
  /\ cache' = CacheFingerprints(cache, connected, h, fps, ast, tokens)
  /\ call' = Called("cache_fingerprints", h, "", fps, ast, tokens, NoCall.value,
                    CacheFingerprintsRet(connected, ast))
  /\ UNCHANGED <<fingerprint_store, ttl, systemVars>>

DeleteCacheCall(connected, h) ==
  /\ call.n < MaxCalls
  /\ cache' = DeleteCache(cache, connected, h)
  /\ call' = Called("delete_cache", h, "", << >>, << >>, FALSE, NoCall.value, connected)
  /\ UNCHANGED <<fingerprint_store, ttl, systemVars>>

CacheSimilarityResultCall(connected, ha, hb, r) ==
  /\ call.n < MaxCalls
  /\ cache' = CacheSimilarityResult(cache, connected, ha, hb, r)
  /\ call' = Called("cache_similarity_result", ha, hb, << >>, << >>, FALSE, r, connected)
  /\ UNCHANGED <<fingerprint_store, ttl, systemVars>>

\* redis_cache.py 116, 124, 142: the three keys of a file are set in one
\* pipeline with the same ttl, and expire together
CacheExpire(h) ==
  /\ call.n < MaxCalls
  /\ h \in DOMAIN cache.fp
  /\ cache' = [cache EXCEPT !.fp = DelKey(@, h), !.ast = DelKey(@, h),
                            !.tokens = DelKey(@, h)]
  /\ call' = Called("expire", h, "", << >>, << >>, FALSE, NoCall.value, TRUE)
  /\ UNCHANGED <<fingerprint_store, ttl, systemVars>>

\* redis_cache.py 444: the ttl of a similarity entry runs out
CacheExpireSimilarity(ha, hb) ==
  /\ call.n < MaxCalls
  /\ <<ha, hb>> \in DOMAIN cache.sim
  /\ cache' = [cache EXCEPT !.sim = DelKey(@, <<ha, hb>>)]
  /\ call' = Called("expire_similarity", ha, hb, << >>, << >>, FALSE, NoCall.value, TRUE)
  /\ UNCHANGED <<fingerprint_store, ttl, systemVars>>

StoreTokenFingerprintsCall(h, fps) ==
  /\ call.n < MaxCalls
  /\ fingerprint_store' = StoreTokenFingerprints(fingerprint_store, h, fps)
  /\ call' = Called("store_token_fingerprints", h, "", fps, << >>, FALSE, NoCall.value, TRUE)
  /\ UNCHANGED <<cache, ttl, systemVars>>

StoreAstFingerprintsCall(h, ast) ==
  /\ call.n < MaxCalls
  /\ fingerprint_store' = StoreAstFingerprints(fingerprint_store, h, ast)
  /\ call' = Called("store_ast_fingerprints", h, "", << >>, ast, FALSE, NoCall.value, TRUE)
  /\ UNCHANGED <<cache, ttl, systemVars>>

EnsureFingerprintsInRedisCall(h) ==
  /\ call.n < MaxCalls
  /\ fingerprint_store' = EnsureFingerprintsInRedis(fingerprint_store, h)
  /\ call' = Called("_ensure_fingerprints_in_redis", h, "", Fingerprints(h), AstHashes(h),
                    FALSE, NoCall.value,
                    Readable(h) \/ (HasTokenFingerprints(fingerprint_store, h)
                                    /\ StoreHasAstFingerprints(fingerprint_store, h)))
  /\ UNCHANGED <<cache, ttl, systemVars>>

DeleteFileFingerprintsCall(h) ==
  /\ call.n < MaxCalls
  /\ fingerprint_store' = DeleteFileFingerprints(fingerprint_store, h)
  /\ call' = Called("delete_file_fingerprints", h, "", << >>, << >>, FALSE, NoCall.value, TRUE)
  /\ UNCHANGED <<cache, ttl, systemVars>>

StoreCacheSimilarityResultCall(ha, hb, r) ==
  /\ call.n < MaxCalls
  /\ fingerprint_store' = StoreCacheSimilarityResult(fingerprint_store, ha, hb, r)
  /\ call' = Called("store.cache_similarity_result", ha, hb, << >>, << >>, FALSE, r, TRUE)
  /\ UNCHANGED <<cache, ttl, systemVars>>

\* fingerprint_store.calculate_ast_similarity(ha, hb) (redis_analyzer.py 78)
CalculateAstSimilarityCall(ha, hb) ==
  /\ call.n < MaxCalls
  /\ call' = Called("store.calculate_ast_similarity", ha, hb, << >>, << >>, FALSE,
                    SimResult(CalculateAstSimilarity(fingerprint_store, ha, hb), << >>), TRUE)
  /\ UNCHANGED <<cache, fingerprint_store, ttl, systemVars>>

\* redis_store.py 63-66: the keys of a file's token fingerprints get their
\* ttl in one pipeline, and expire together
StoreExpireToken(h) ==
  /\ call.n < MaxCalls
  /\ h \in DOMAIN fingerprint_store.tcount
  /\ fingerprint_store' = [fingerprint_store EXCEPT !.thashes = DelKey(@, h),
                             !.tpos = DelKey(@, h), !.tcount = DelKey(@, h)]
  /\ call' = Called("store.expire_token", h, "", << >>, << >>, FALSE, NoCall.value, TRUE)
  /\ UNCHANGED <<cache, ttl, systemVars>>

\* redis_store.py 124, 129
StoreExpireAst(h) ==
  /\ call.n < MaxCalls
  /\ h \in DOMAIN fingerprint_store.ahashes
  /\ fingerprint_store' = [fingerprint_store EXCEPT !.ahashes = DelKey(@, h),
                             !.acount = DelKey(@, h)]
  /\ call' = Called("store.expire_ast", h, "", << >>, << >>, FALSE, NoCall.value, TRUE)
  /\ UNCHANGED <<cache, ttl, systemVars>>

\* redis_store.py 275
StoreExpireSimilarity(ha, hb) ==
  /\ call.n < MaxCalls
  /\ <<ha, hb>> \in DOMAIN fingerprint_store.sim
  /\ fingerprint_store' = [fingerprint_store EXCEPT !.sim = DelKey(@, <<ha, hb>>)]
  /\ call' = Called("store.expire_similarity", ha, hb, << >>, << >>, FALSE, NoCall.value, TRUE)
  /\ UNCHANGED <<cache, ttl, systemVars>>

NextStore ==
  \/ \E connected \in BOOLEAN, h \in StoreHashes, fps \in FpLists, ast \in AstLists :
        CacheFingerprintsCall(connected, h, fps, ast, TRUE)   \* worker.py 175-177: tokens is a list
  \/ \E connected \in BOOLEAN, h \in StoreHashes : DeleteCacheCall(connected, h)
  \/ \E connected \in BOOLEAN, ha \in StoreHashes, hb \in StoreHashes, r \in SimResults :
        CacheSimilarityResultCall(connected, ha, hb, r)
  \/ \E h \in StoreHashes : CacheExpire(h)
  \/ \E ha \in StoreHashes, hb \in StoreHashes : CacheExpireSimilarity(ha, hb)
  \/ \E h \in StoreHashes, fps \in FpLists : StoreTokenFingerprintsCall(h, fps)
  \/ \E h \in StoreHashes, ast \in AstLists : StoreAstFingerprintsCall(h, ast)
  \/ \E h \in Hashes : EnsureFingerprintsInRedisCall(h)
  \/ \E h \in StoreHashes : DeleteFileFingerprintsCall(h)
  \/ \E ha \in StoreHashes, hb \in StoreHashes, r \in SimResults :
        StoreCacheSimilarityResultCall(ha, hb, r)
  \/ \E ha \in StoreHashes, hb \in StoreHashes : CalculateAstSimilarityCall(ha, hb)
  \/ \E h \in StoreHashes : StoreExpireToken(h)
  \/ \E h \in StoreHashes : StoreExpireAst(h)
  \/ \E ha \in StoreHashes, hb \in StoreHashes : StoreExpireSimilarity(ha, hb)

StoreSpec == Init /\ [][NextStore]_vars

(***************************************************************************)
(* Properties of the stores.                                               *)
(***************************************************************************)
\* the step is a call that stores token fingerprints fps / AST hashes ast
\* under h in the RedisFingerprintStore
PutsToken(h, fps) ==
  /\ call'.h = h /\ call'.fps = fps
  /\ \/ call'.op = "store_token_fingerprints"
     \/ /\ call'.op = "_ensure_fingerprints_in_redis" /\ Readable(h)
        /\ ~HasTokenFingerprints(fingerprint_store, h)

PutsAst(h, ast) ==
  /\ call'.h = h /\ call'.ast = ast
  /\ \/ call'.op = "store_ast_fingerprints"
     \/ /\ call'.op = "_ensure_fingerprints_in_redis" /\ Readable(h)
        /\ ~StoreHasAstFingerprints(fingerprint_store, h)

\* the step deletes or expires the token / AST entry of h
DropsToken(h) ==
  call'.h = h /\ call'.op \in {"delete_file_fingerprints", "store.expire_token"}

DropsAst(h) ==
  call'.h = h /\ call'.op \in {"delete_file_fingerprints", "store.expire_ast"}

\* C14 as stated: after a put of a file's winnowed fingerprints and AST
\* hashes under h, has_token(h) and has_ast(h) are true, and stay true
\* until the entry expires or is deleted.
C14_PutThenHas ==
  [][\A h \in Hashes :
       /\ (\E fps \in FpLists \cup {Fingerprints(h)} : PutsToken(h, fps))
             => HasTokenFingerprints(fingerprint_store', h)
       /\ (\E ast \in AstLists \cup {AstHashes(h)} : PutsAst(h, ast))
             => StoreHasAstFingerprints(fingerprint_store', h)
       /\ (HasTokenFingerprints(fingerprint_store, h) /\ ~DropsToken(h))
             => HasTokenFingerprints(fingerprint_store', h)
       /\ (StoreHasAstFingerprints(fingerprint_store, h) /\ ~DropsAst(h))
             => StoreHasAstFingerprints(fingerprint_store', h)]_vars

\* C14 amended: after a put of a non-empty list of winnowed fingerprints and
\* a non-empty list of AST hashes under h, has_token(h) and has_ast(h) are
\* true, and stay true until the entry expires or is deleted.
C14_NonEmptyPutThenHas ==
  [][\A h \in Hashes :
       /\ (\E fps \in (FpLists \cup {Fingerprints(h)}) \ {<< >>} : PutsToken(h, fps))
             => HasTokenFingerprints(fingerprint_store', h)
       /\ (\E ast \in (AstLists \cup {AstHashes(h)}) \ {<< >>} : PutsAst(h, ast))
             => StoreHasAstFingerprints(fingerprint_store', h)
       /\ (HasTokenFingerprints(fingerprint_store, h) /\ ~DropsToken(h))
             => HasTokenFingerprints(fingerprint_store', h)
       /\ (StoreHasAstFingerprints(fingerprint_store, h) /\ ~DropsAst(h))
             => StoreHasAstFingerprints(fingerprint_store', h)]_vars

\* token fingerprints were put under h, AST hashes were put after them, a
\* third call went by, and both lookups answer true
C14_Witness ==
  \E h \in StoreHashes :
    /\ call.n = MaxCalls /\ call.op = "store.cache_similarity_result"
    /\ HasTokenFingerprints(fingerprint_store, h)
    /\ StoreHasAstFingerprints(fingerprint_store, h)
    /\ GetTokenFingerprints(fingerprint_store, h).count = 3

\* the step is a put with an empty collection of AST hashes under h
PutsEmptyAst(h) ==
  /\ call'.h = h /\ call'.ast = << >>
  /\ call'.op \in {"cache_fingerprints", "store_ast_fingerprints"}

\* C15 as stated: a put whose AST hash collection is empty creates no AST
\* entry: has_ast(h) is false afterwards, and what was stored before the
\* call is unchanged.
C15_EmptyAstPutLeavesNoEntry ==
  [][\A h \in StoreHashes :
       PutsEmptyAst(h) =>
         /\ ~HasAstFingerprints(cache', TRUE, h)
         /\ ~StoreHasAstFingerprints(fingerprint_store', h)
         /\ cache' = cache
         /\ fingerprint_store' = fingerprint_store]_vars

\* C15 amended: a put whose AST hash collection is empty creates no AST
\* entry: has_ast(h) answers afterwards what it answered before, and what
\* was stored before the call is unchanged.
C15_EmptyAstPutChangesNothing ==
  [][\A h \in StoreHashes :
       PutsEmptyAst(h) =>
         /\ HasAstFingerprints(cache', TRUE, h) = HasAstFingerprints(cache, TRUE, h)
         /\ StoreHasAstFingerprints(fingerprint_store', h)
              = StoreHasAstFingerprints(fingerprint_store, h)
         /\ cache' = cache
         /\ fingerprint_store' = fingerprint_store]_vars

\* fingerprints were put with an empty AST collection under a hash that had
\* an entry, and the entry is the one of the earlier put
C15_Witness ==
  /\ call.op = "cache_fingerprints" /\ call.ast = << >> /\ call.fps = <<Fp(1, 0), Fp(2, 1)>>
  /\ HasAstFingerprints(cache, TRUE, call.h)
  /\ GetFingerprints(cache, TRUE, call.h).value = <<Fp(1, 0), Fp(2, 1), Fp(1, 2)>>

\* the calls that put fingerprints or AST hashes
PutOps == {"cache_fingerprints", "store_token_fingerprints", "store_ast_fingerprints",
           "_ensure_fingerprints_in_redis"}

\* C16: putting the same fingerprints and AST hashes under the same content
\* hash a second time leaves the stored fingerprint list, the stored AST
\* hashes and their counts as they were after the first put.
C16_SecondPutChangesNothing ==
  [][(call'.op \in PutOps /\ call'.repeat) =>
       /\ cache' = cache
       /\ fingerprint_store' = fingerprint_store]_vars

\* the same three fingerprints and two AST hashes were put twice in a row
C16_Witness ==
  \/ /\ call.op = "store_token_fingerprints" /\ call.repeat
     /\ call.fps = <<Fp(1, 0), Fp(2, 1), Fp(1, 2)>>
     /\ GetTokenFingerprints(fingerprint_store, call.h).count = 3
  \/ /\ call.op = "cache_fingerprints" /\ call.repeat /\ call.ret
     /\ GetAstHashes(cache, TRUE, call.h).value = <<10, 10>>

C21_SelfSimilarityIsOne ==
  ( /\ call.op = "store.calculate_ast_similarity"
    /\ call.h = call.h2
    /\ StoreHasAstFingerprints(fingerprint_store, call.h) )
  => call.value.ast_similarity.n = call.value.ast_similarity.d

\* C22: every ast_sim an AST similarity computation returns for two stored
\* collections of AST hashes lies between 0 and 1 inclusive.
C22_AstSimilarityInUnitInterval ==
  call.op = "store.calculate_ast_similarity"
  => /\ call.value.ast_similarity.d > 0
     /\ 0 <= call.value.ast_similarity.n
     /\ call.value.ast_similarity.n <= call.value.ast_similarity.d

(***************************************************************************)
(* The inverted index on its own (worker/inverted_index.py): files are     *)
(* added and removed in any order, and time passes, so that keys reach     *)
(* their ttl in the order in which they got it.                            *)
(***************************************************************************)
MaxIndexCalls == 4

IndexLanguages == {"python", "cpp"}

IndexFpLists == { << >>, <<Fp(1, 0)>>, <<Fp(1, 0), Fp(2, 1)>> }

nonRedisVars == <<upl, tasks, results, brokerVars, redisUp, cacheConn, connUp, faults, pc,
                  cur, localVars, pending, main, cmp>>

\* the keys that still exist keep their ttl entry
LiveTtl(t, i, f) ==
  [hash |-> [k \in { k \in DOMAIN t.hash : \E x \in i : x[1] = k[1] /\ x[2] = k[2] } |-> t.hash[k]],
   file |-> [k \in { k \in DOMAIN t.file : \E x \in f : x[1] = k[1] /\ x[2] = k[2] } |-> t.file[k]]]

\* add_file_fingerprints 32-70: one pipeline adds the file under each of
\* its hashes and the hashes under the file, and sets the ttl of every key
\* it touched
AddFileFingerprintsCall(c, fps, l) ==
  /\ call.n < MaxIndexCalls
  /\ IF fps = << >>
     THEN UNCHANGED <<inv, fidx, ttl>>
     ELSE /\ inv' = inv \cup AddToInv(c, fps, l)
          /\ fidx' = fidx \cup AddToFidx(c, fps, l)
          /\ ttl' = [hash |-> [k \in DOMAIN ttl.hash \cup { <<l, x.hash>> : x \in SeqRange(fps) } |->
                                 IF \E x \in SeqRange(fps) : k = <<l, x.hash>>
                                 THEN call.n + 1 ELSE ttl.hash[k]],
                     file |-> SetKey(ttl.file, <<l, c>>, call.n + 1)]
  /\ call' = Called("add_file_fingerprints", c, l, fps, << >>, FALSE, NoCall.value, TRUE)
  /\ UNCHANGED <<cache, fingerprint_store, astCache, fpCache, simCache, nonRedisVars>>

\* remove_file 132-163
RemoveFileCall(c, l) ==
  /\ call.n < MaxIndexCalls
  /\ LET hash_values == GetFileFingerprints(c, l)
     IN  IF hash_values = {}
         THEN UNCHANGED <<inv, fidx, ttl>>
         ELSE /\ inv' = inv \ { <<l, x, c>> : x \in hash_values }
              /\ fidx' = fidx \ { <<l, c, x>> : x \in hash_values }
              /\ ttl' = LiveTtl(ttl, inv', fidx')
  /\ call' = Called("remove_file", c, l, << >>, << >>, FALSE, NoCall.value, TRUE)
  /\ UNCHANGED <<cache, fingerprint_store, astCache, fpCache, simCache, nonRedisVars>>

\* inverted_index.py 57, 63: the keys that got their ttl first reach it
ExpireOldest ==
  /\ call.n < MaxIndexCalls
  /\ DOMAIN ttl.hash # {} \/ DOMAIN ttl.file # {}
  /\ LET stamps == { ttl.hash[k] : k \in DOMAIN ttl.hash } \cup { ttl.file[k] : k \in DOMAIN ttl.file }
         oldest == CHOOSE t \in stamps : \A u \in stamps : t <= u
     IN  /\ inv' = { x \in inv : ttl.hash[<<x[1], x[2]>>] # oldest }
         /\ fidx' = { x \in fidx : ttl.file[<<x[1], x[2]>>] # oldest }
         /\ ttl' = LiveTtl(ttl, inv', fidx')
  /\ call' = Called("expire", "", "", << >>, << >>, FALSE, NoCall.value, TRUE)
  /\ UNCHANGED <<cache, fingerprint_store, astCache, fpCache, simCache, nonRedisVars>>

\* the queries: the lists that are indexed, and two lists of seven
\* fingerprints, of seven hashes and with one hash twice
QueryFpLists ==
  IndexFpLists \cup { [i \in 1..7 |-> Fp(i, i - 1)],
                      [i \in 1..7 |-> Fp(IF i <= 2 THEN 1 ELSE i, i - 1)] }

\* find_candidate_files(fingerprints, language) 72-116
FindCandidateFilesCall(fps, l) ==
  /\ call.n < MaxIndexCalls
  /\ call' = Called("find_candidate_files", "", l, fps, << >>, FALSE,
                    [candidates |-> FindCandidateFiles(fps, l)], TRUE)
  /\ UNCHANGED <<inv, fidx, ttl, cache, fingerprint_store, astCache, fpCache, simCache,
                 nonRedisVars>>

NextIndex ==
  \/ \E c \in StoreHashes, fps \in IndexFpLists, l \in IndexLanguages :
        AddFileFingerprintsCall(c, fps, l)
  \/ \E fps \in QueryFpLists, l \in IndexLanguages : FindCandidateFilesCall(fps, l)
  \/ \E c \in StoreHashes, l \in IndexLanguages : RemoveFileCall(c, l)
  \/ ExpireOldest

IndexSpec == Init /\ [][NextIndex]_vars

\* C18: after any sequence of add and remove operations, c is in inv[h]
\* exactly when h is in files[c], within one language; after remove(c) no
\* inv entry names c and no candidate query returns c.
C18_IndexSymmetric ==
  /\ \A l \in IndexLanguages, c \in StoreHashes, x \in {1, 2} :
       <<l, x, c>> \in inv <=> <<l, c, x>> \in fidx
  /\ call.op = "remove_file" =>
       /\ \A x \in {1, 2} : <<call.h2, x, call.h>> \notin inv
       /\ \A fps \in IndexFpLists : call.h \notin FindCandidateFiles(fps, call.h2)

\* C19: in every state the worker can reach, when the fingerprint store
\* holds the fingerprints of a content hash, each of their hashes is in the
\* inverted index for that content hash, under the language of the task.
C19_StoredFingerprintsIndexed ==
  \A h \in fpCache : \A x \in SeqRange(Fingerprints(h)) : <<"python", x.hash, h>> \in inv

(***************************************************************************)
(* The comparison of two files on its own: analyze_plagiarism of           *)
(* src/plagiarism/analyzer.py, and the comparison process_pair makes       *)
(* through the cache (worker.py 340-347), each taken in both orders.       *)
(***************************************************************************)
\* analyzer.py 218, 219: token_threshold and ast_threshold
TokenThresholdPercent == 15
AstThresholdPercent == 30

CompareFpLists == { << >>, <<Fp(3, 0)>>, <<Fp(1, 0), Fp(2, 1)>>, <<Fp(1, 0), Fp(2, 5)>>,
                    <<Fp(1, 0), Fp(2, 1), Fp(1, 2)>>, <<Fp(2, 0), Fp(1, 1)>> }

CompareAstLists == { << >>, <<12>>, <<10, 11>>, <<10, 10, 11>>, <<10, 12, 13>> }

CompareFiles == { File(fps, ast) : fps \in CompareFpLists, ast \in CompareAstLists }

\* index_fingerprints 99-103: the fingerprints of hash h, in their order
IndexFingerprints(fps, h) == SelectSeq(fps, LAMBDA x : x.hash = h)

\* token_similarity 105-115
TokenSimilarity(fa, fb) ==
  LET common == { x.hash : x \in SeqRange(fa) } \cap { x.hash : x \in SeqRange(fb) }
      Sa == Cardinality({ i \in 1..Len(fa) : fa[i].hash \in common })
      Sb == Cardinality({ i \in 1..Len(fb) : fb[i].hash \in common })
  IN  IF common = {} THEN ZeroSim ELSE [n |-> Sa + Sb, d |-> Len(fa) + Len(fb)]

\* ast_similarity 158-162: Counter(a) & Counter(b) over Counter(a) | Counter(b)
AstSimilarity(xs, ys) ==
  LET Count(v, zs) == Cardinality({ j \in 1..Len(zs) : zs[j] = v })
      intersection == Cardinality({ i \in 1..Len(xs) :
                        Cardinality({ j \in 1..i : xs[j] = xs[i] }) <= Count(xs[i], ys) })
      union == Len(xs) + Len(ys) - intersection
  IN  IF union = 0 THEN ZeroSim ELSE [n |-> intersection, d |-> union]

\* the matches of one common hash: zip(index_a[h], index_b[h])
ZipRegions(fa, fb, h) ==
  LET a == IndexFingerprints(fa, h)
      b == IndexFingerprints(fb, h)
      n == IF Len(a) <= Len(b) THEN Len(a) ELSE Len(b)
  IN  [k \in 1..n |-> Region(a[k], b[k])]

RECURSIVE RegionsOfHashes(_, _, _)
RegionsOfHashes(fa, fb, hs) ==
  IF hs = {} THEN << >>
  ELSE LET h == CHOOSE x \in hs : \A y \in hs : x <= y
       IN  ZipRegions(fa, fb, h) \o RegionsOfHashes(fa, fb, hs \ {h})

\* analyzer.py find_matching_regions 168-186, the common hashes in ascending order
AnalyzerMatchingRegions(fa, fb) ==
  RegionsOfHashes(fa, fb, { x.hash : x \in SeqRange(fa) } \cap { x.hash : x \in SeqRange(fb) })

\* analyze_plagiarism 214-247; merge_adjacent_matches 188-211 is the loop of
\* the cache's merge_adjacent_matches
AnalyzePlagiarism(f1, f2) ==
  LET tok_sim == TokenSimilarity(f1.fps, f2.fps)
      ast_sim == AstSimilarity(f1.ast, f2.ast)
  IN  IF ~AtLeastPercent(tok_sim, TokenThresholdPercent) THEN NoResult
      ELSE IF ~AtLeastPercent(ast_sim, AstThresholdPercent)
      THEN [ast_similarity |-> ast_sim, matches |-> << >>]
      ELSE [ast_similarity |-> ast_sim,
            matches |-> MergeAdjacentMatches(AnalyzerMatchingRegions(f1.fps, f2.fps))]

\* worker.py 340-347 with both files cached
CacheCompare(fa, fb) ==
  LET ast_similarity == SetJaccard(fa.ast, fb.ast)
  IN  [ast_similarity |-> ast_similarity,
       matches |-> IF AtLeastPercent(ast_similarity, MatchThresholdPercent)
                   THEN MergeAdjacentMatches(FindMatchingRegions(fa.fps, fb.fps))
                   ELSE << >>]

allButCmp == <<upl, tasks, results, brokerVars, redisVars, redisUp, cacheConn, connUp, faults,
               pc, cur, localVars, pending, main, cache, fingerprint_store, call, ttl>>

\* analyze_plagiarism(file1, file2) and analyze_plagiarism(file2, file1)
AnalyzePlagiarismCall ==
  /\ ~cmp.analyzed
  /\ cmp' = [cmp EXCEPT !.r12 = AnalyzePlagiarism(cmp.f1, cmp.f2),
                        !.r21 = AnalyzePlagiarism(cmp.f2, cmp.f1),
                        !.analyzed = TRUE]
  /\ UNCHANGED allButCmp

\* the worker's comparison of (a, b) and of (b, a)
CacheCompareCall ==
  /\ ~cmp.compared
  /\ cmp' = [cmp EXCEPT !.w12 = CacheCompare(cmp.f1, cmp.f2),
                        !.w21 = CacheCompare(cmp.f2, cmp.f1),
                        !.compared = TRUE]
  /\ UNCHANGED allButCmp

\* redis_analyzer.py 60-78: the AST hashes of the two files are stored under
\* their content hashes, then compared through the store
StoreCompare(fa, fb) ==
  LET s1 == StoreAstFingerprints(EmptyStore, "hA", fa.ast)
      s2 == StoreAstFingerprints(s1, "hB", fb.ast)
  IN  CalculateAstSimilarity(s2, "hA", "hB")

StoreCompareCall ==
  /\ ~cmp.stored
  /\ cmp' = [cmp EXCEPT !.s12 = StoreCompare(cmp.f1, cmp.f2), !.stored = TRUE]
  /\ UNCHANGED allButCmp

\* analyzer.py 243-245: find_matching_regions, then merge_adjacent_matches
MatchingRegionsCall ==
  /\ ~cmp.matched
  /\ LET raw == AnalyzerMatchingRegions(cmp.f1.fps, cmp.f2.fps)
     IN  cmp' = [cmp EXCEPT !.raw = raw, !.merged = MergeAdjacentMatches(raw),
                            !.matched = TRUE]
  /\ UNCHANGED allButCmp

\* worker.py 345-346: cache.find_matching_regions, then
\* cache.merge_adjacent_matches
CacheMatchingRegionsCall ==
  /\ ~cmp.cache_matched
  /\ LET raw == FindMatchingRegions(cmp.f1.fps, cmp.f2.fps)
     IN  cmp' = [cmp EXCEPT !.cache_raw = raw, !.cache_merged = MergeAdjacentMatches(raw),
                            !.cache_matched = TRUE]
  /\ UNCHANGED allButCmp

CompareInit ==
  /\ InitStores
  /\ main = [w \in Workers |-> Consuming]
  /\ cmp \in { [NoCmp EXCEPT !.f1 = a, !.f2 = b] : a \in CompareFiles, b \in CompareFiles }

NextCompare ==
  \/ AnalyzePlagiarismCall
  \/ CacheCompareCall
  \/ StoreCompareCall
  \/ MatchingRegionsCall
  \/ CacheMatchingRegionsCall

CompareSpec == CompareInit /\ [][NextCompare]_vars

\* a match with its two sides exchanged
SwapSides(m) == [file1 |-> m.file2, file2 |-> m.file1]

SameUpToSides(ms, sm) ==
  /\ Len(ms) = Len(sm)
  /\ SeqRange(ms) = { SwapSides(m) : m \in SeqRange(sm) }

\* C20: compare(f1, f2) = compare(f2, f1) for any two files: the same
\* ast_sim and the same merged matches, up to exchanging the two sides of
\* each match.
C20_CompareSymmetric ==
  /\ cmp.analyzed =>
       /\ cmp.r12.ast_similarity = cmp.r21.ast_similarity
       /\ SameUpToSides(cmp.r12.matches, cmp.r21.matches)
  /\ cmp.compared =>
       /\ cmp.w12.ast_similarity = cmp.w21.ast_similarity
       /\ SameUpToSides(cmp.w12.matches, cmp.w21.matches)

(***************************************************************************)
(* Fingerprinting (src/plagiarism/analyzer.py 62-97): the rolling hash of   *)
(* every k-gram of token types, and winnowing.  Python integers do not      *)
(* overflow; products are taken by doubling so that no intermediate value   *)
(* leaves the 32-bit range.                                                 *)
(***************************************************************************)
\* compute_fingerprints(tokens, k=6, base=257, mod=10**9 + 7)
K == 6
Base == 257
Mod == 1000000007
\* winnow_fingerprints(fingerprints, window_size=5)
WindowSize == 5

MaxPad == 2
MaxChanges == 2

\* stable_hash 30-32 of a token type, reduced modulo Mod (it is only ever
\* added or multiplied modulo Mod)
StableHash(type) ==
  CASE type = "identifier" -> 556026256
    [] type = "="          -> 552069069
    [] type = "integer"    -> 18088336

\* the tokens tokenize_with_tree_sitter returns for these types, one token per
\* column of line 0: (type, start_point, end_point)
Tokens(types) == [i \in 1..Len(types) |-> <<types[i], <<0, i - 1>>, <<0, i>>>>]

RECURSIVE MulMod(_, _)
\* (a * b) % Mod
MulMod(a, b) ==
  IF a = 0 \/ b = 0 THEN 0
  ELSE LET half == MulMod(a, b \div 2)
           twice == (half + half) % Mod
       IN  IF b % 2 = 1 THEN (twice + a) % Mod ELSE twice

RECURSIVE PowMod(_, _)
\* pow(b, e, mod)
PowMod(b, e) == IF e = 0 THEN 1 ELSE MulMod(b, PowMod(b, e - 1))

RECURSIVE FirstHash(_, _)
\* lines 70-71: the hash of the first n tokens
FirstHash(tokens, n) ==
  IF n = 0 THEN 0
  ELSE (MulMod(FirstHash(tokens, n - 1), Base) + StableHash(tokens[n][1])) % Mod

RECURSIVE RollingHashes(_, _, _, _)
\* lines 79-86: token i enters the k-gram and token i - k leaves it
RollingHashes(tokens, i, h, hashes) ==
  IF i > Len(tokens) THEN hashes
  ELSE LET power == PowMod(Base, K - 1)
           h1 == (h - MulMod(StableHash(tokens[i - K][1]), power)) % Mod
           h2 == (MulMod(h1, Base) + StableHash(tokens[i][1])) % Mod
       IN  RollingHashes(tokens, i + 1, h2,
                         Append(hashes, [hash |-> h2, start |-> tokens[i - K + 1][2],
                                         end |-> tokens[i][3]]))

\* compute_fingerprints 62-88
ComputeFingerprints(tokens) ==
  IF Len(tokens) < K THEN << >>
  ELSE LET h == FirstHash(tokens, K)
       IN  RollingHashes(tokens, K + 1, h,
                         << [hash |-> h, start |-> tokens[1][2], end |-> tokens[K][3]] >>)

\* min(window, key=hash): the first fingerprint of the least hash
MinFp(window) ==
  window[CHOOSE j \in 1..Len(window) :
           /\ \A l \in 1..Len(window) : window[j].hash <= window[l].hash
           /\ \A l \in 1..(j - 1) : window[j].hash < window[l].hash]

RECURSIVE WinnowLoop(_, _, _, _)
\* lines 92-96, the windows starting at i, i + step, ...
WinnowLoop(fingerprints, i, step, winnowed) ==
  IF i + WindowSize - 1 > Len(fingerprints) THEN winnowed
  ELSE LET min_fp == MinFp(SubSeq(fingerprints, i, i + WindowSize - 1))
       IN  WinnowLoop(fingerprints, i + step, step,
                      IF winnowed = << >> \/ min_fp.hash # winnowed[Len(winnowed)].hash
                      THEN Append(winnowed, min_fp) ELSE winnowed)

\* winnowing over windows that do not overlap
WinnowDisjointWindows(fingerprints) == WinnowLoop(fingerprints, 1, WindowSize, << >>)

\* winnow_fingerprints 90-97
WinnowFingerprints(fingerprints) == WinnowLoop(fingerprints, 1, 1, << >>)

\* the streams: a run of WindowSize + K - 1 token types in which the type
\* changes at most MaxChanges times, with up to MaxPad other tokens before and
\* after it in the two streams together
RunLength == WindowSize + K - 1
Runs == { r \in [1..RunLength -> {"identifier", "="}] :
            Cardinality({ i \in 1..(RunLength - 1) : r[i] # r[i + 1] }) <= MaxChanges }
Pads == UNION { [1..n -> {"=", "integer"}] : n \in 0..MaxPad }
PadPlacements == { x \in Pads \X Pads \X Pads \X Pads :
                     Len(x[1]) + Len(x[2]) + Len(x[3]) + Len(x[4]) <= MaxPad }

\* analyze_plagiarism 222-226: both files are tokenized and fingerprinted
FingerprintCall ==
  /\ ~cmp.fingerprinted
  /\ cmp' = [cmp EXCEPT
               !.f1 = File(WinnowFingerprints(ComputeFingerprints(cmp.t1)), << >>),
               !.f2 = File(WinnowFingerprints(ComputeFingerprints(cmp.t2)), << >>),
               !.fingerprinted = TRUE]
  /\ UNCHANGED allButCmp

WinnowInit ==
  /\ InitStores
  /\ main = [w \in Workers |-> Consuming]
  /\ cmp \in { [NoCmp EXCEPT !.t1 = Tokens(p1 \o r \o q1), !.t2 = Tokens(p2 \o r \o q2)] :
                 r \in Runs, <<p1, q1, p2, q2>> \in PadPlacements }

NextWinnow == FingerprintCall

WinnowSpec == WinnowInit /\ [][NextWinnow]_vars

\* the two token streams have RunLength consecutive token types in common
SharesRun(t1, t2) ==
  \E i \in 1..(Len(t1) - RunLength + 1), j \in 1..(Len(t2) - RunLength + 1) :
    \A d \in 0..(RunLength - 1) : t1[i + d][1] = t2[j + d][1]

FpHashes(fps) == { fps[i].hash : i \in 1..Len(fps) }

\* C23: two token streams that share a run of at least W + K - 1 = 10
\* consecutive identical token types have winnowed fingerprint sequences that
\* share at least one hash.
C23_WinnowingGuarantee ==
  (cmp.fingerprinted /\ SharesRun(cmp.t1, cmp.t2))
  => FpHashes(cmp.f1.fps) \cap FpHashes(cmp.f2.fps) # {}

\* two different streams with the run at different places, one of them keeping
\* a fingerprint the other does not have
C23_Witness ==
  /\ cmp.fingerprinted
  /\ SharesRun(cmp.t1, cmp.t2)
  /\ Len(cmp.t1) # Len(cmp.t2)
  /\ cmp.t1[1][1] # cmp.t2[1][1]
  /\ FpHashes(cmp.f1.fps) # FpHashes(cmp.f2.fps)
  /\ FpHashes(cmp.f1.fps) \cap FpHashes(cmp.f2.fps) # {}

(***************************************************************************)
(* Progress and the order of the pairs.                                    *)
(***************************************************************************)
\* C24: before the first pair of a task is compared, the worker persists
\* total_pairs = |intra| + |cross| together with processed_pairs = 0 for the
\* task: the step that follows the counting of the pairs leaves both in the
\* task store.
C24_TotalPairsPersisted ==
  [][\A w \in Workers :
       (pc[w] = "progress" /\ pc'[w] # "progress")
       => /\ tasks'[cur[w]].total_pairs = Len(intra[w]) + Len(cross[w])
          /\ tasks'[cur[w]].processed_pairs = 0]_vars

\* the step is one in which worker w's counter of handled pairs goes up
Counts(w) == pw'[w].processed_count = pw[w].processed_count + 1

TaskFileIds(t) == { FileId(t, i) : i \in 1..Len(upl[t].hashes) }

\* row r is the result of a cross-task pair: its second file is of another task
CrossRow(r) == r.file_b_id \notin TaskFileIds(r.task_id)

\* C26: within one task, every intra-task pair is processed before any
\* cross-task pair is processed: when the result of a cross-task pair of the
\* task is stored, the result of each of its intra-task pairs is stored.
C26_IntraBeforeCross ==
  \A r \in results :
    CrossRow(r) =>
      \A i, j \in 1..Len(upl[r.task_id].hashes) :
        i < j => ExistingRows(r.task_id, FileId(r.task_id, i), FileId(r.task_id, j)) # {}

\* a worker is at the first cross-task pair of its task, the intra-task
\* pair stored and no cross-task pair yet
C26_Witness ==
  \E w \in Workers :
    /\ pc[w] = "pair"
    /\ Len(intra[w]) >= 1
    /\ pw[w].i = Len(intra[w]) + 1
    /\ \E r \in results : r.task_id = cur[w] /\ ~CrossRow(r)
    /\ \A r \in results : r.task_id = cur[w] => ~CrossRow(r)

(***************************************************************************)
(* The candidates of the cross-task pairs.                                 *)
(***************************************************************************)
\* C27: every cross-task pair scheduled for a task pairs a file of the task
\* with a file of another task whose content hash is in the candidate set the
\* inverted index returned for that new file; an existing file outside that
\* candidate set is never scheduled against the new file.
C27_CrossPairsAreCandidates ==
  [][\A w \in Workers :
       (pc[w] = "count" /\ pc'[w] = "progress")
       => \A k \in 1..Len(cross'[w]) :
            LET new_file == cross'[w][k][1]
                existing_file == cross'[w][k][2]
            IN  /\ new_file.task = cur[w]
                /\ existing_file.task # cur[w]
                /\ existing_file.hash \in
                     FindCandidateFiles(Fingerprints(new_file.hash),
                                        Envelope(cur[w]).language)]_vars

\* the least integer that is at least n * ThresholdPercent / 100
CeilingOverlap(n) == (n * ThresholdPercent + 99) \div 100

\* C28: find_candidate_files returns exactly the content hashes whose overlap
\* counter is at least the ceiling of |Q| * 0.15, |Q| being the number of
\* query fingerprints; for an empty query it returns the empty set.
C28_CandidatesMeetCeiling ==
  call.op = "find_candidate_files"
  => call.value.candidates =
       IF call.fps = << >> THEN {}
       ELSE { c \in Hashes : OverlapCount(call.fps, call.h2, c) >= CeilingOverlap(Len(call.fps)) }

(***************************************************************************)
(* The two thresholds of a comparison.                                     *)
(***************************************************************************)
\* tok_sim < token_threshold for the two files compared
BelowTokenThreshold ==
  ~AtLeastPercent(TokenSimilarity(cmp.f1.fps, cmp.f2.fps), TokenThresholdPercent)

\* the result (0, []) of a rejected pair
Rejected(r) == r.ast_similarity.n = 0 /\ r.matches = << >>

\* C29: whenever the token similarity of a pair is below 0.15, the result
\* produced and persisted for the pair is ast_sim = 0 with an empty match
\* list, and the AST stage is not evaluated for it.
C29_TokenFilterRejects ==
  BelowTokenThreshold =>
    /\ cmp.analyzed => Rejected(cmp.r12) /\ Rejected(cmp.r21)
    /\ cmp.compared => Rejected(cmp.w12) /\ Rejected(cmp.w21)

\* ast_sim < ast_threshold in the result r
BelowAstThreshold(r) == ~AtLeastPercent(r.ast_similarity, AstThresholdPercent)

\* C30: whenever a pair's ast_sim is below 0.30, the match list produced,
\* cached and persisted for that pair is empty.
C30_LowAstNoMatches ==
  /\ cmp.analyzed /\ BelowAstThreshold(cmp.r12) => cmp.r12.matches = << >>
  /\ cmp.compared /\ BelowAstThreshold(cmp.w12) => cmp.w12.matches = << >>

(***************************************************************************)
(* The AST similarity of the stores against analyzer.ast_similarity.       *)
(***************************************************************************)
\* two similarities of the same value
SameValue(x, y) == x.n * y.d = y.n * x.d

\* C31: the AST similarity computed through the fingerprint store for two
\* content hashes equals the multiset Jaccard of the two files' AST hash
\* lists, the value analyzer.ast_similarity returns for the same two lists,
\* including when a list contains repeated hashes.
C31_StoreAstIsMultisetJaccard ==
  /\ cmp.stored => SameValue(cmp.s12, AstSimilarity(cmp.f1.ast, cmp.f2.ast))
  /\ cmp.compared =>
       SameValue(cmp.w12.ast_similarity, AstSimilarity(cmp.f1.ast, cmp.f2.ast))

(***************************************************************************)
(* The raw matches and their merging.                                      *)
(***************************************************************************)
\* the hashes the two files compared have in common
CommonHashes ==
  { x.hash : x \in SeqRange(cmp.f1.fps) } \cap { x.hash : x \in SeqRange(cmp.f2.fps) }

\* the i-th anchor of h in file A with the i-th anchor of h in file B
PairedByIndex(h) ==
  LET a == IndexFingerprints(cmp.f1.fps, h)
      b == IndexFingerprints(cmp.f2.fps, h)
  IN  { Region(a[i], b[i]) : i \in 1..(IF Len(a) <= Len(b) THEN Len(a) ELSE Len(b)) }

\* the positions in raw of the matches whose side A is an anchor of h
MatchesOfHash(raw, h) ==
  { k \in 1..Len(raw) :
      \E i \in 1..Len(cmp.f1.fps) :
        /\ cmp.f1.fps[i].hash = h
        /\ raw[k].file1 = Region(cmp.f1.fps[i], cmp.f1.fps[i]).file1 }

ExactlyPairedByIndex(raw) ==
  \A h \in CommonHashes :
    /\ Cardinality(MatchesOfHash(raw, h)) = Cardinality(PairedByIndex(h))
    /\ { raw[k] : k \in MatchesOfHash(raw, h) } = PairedByIndex(h)

\* C32: for each fingerprint hash h shared by two files, the match assembler
\* emits exactly min(|A_h|, |B_h|) raw matches, pairing the i-th anchor of h
\* in file A with the i-th anchor of h in file B.
C32_MatchesPairedByIndex ==
  /\ cmp.matched => ExactlyPairedByIndex(cmp.raw)
  /\ cmp.cache_matched => ExactlyPairedByIndex(cmp.cache_raw)

\* match m lies within the line gap and the column gap of region last on one
\* side (side is "file1" or "file2")
WithinGaps(last, m, side) ==
  /\ m[side].start_line <= last[side].end_line + MaxLineGap
  /\ m[side].start_col - last[side].end_col <= MaxColGap

RECURSIVE MergeBothSides(_, _)
\* the walk that extends the previous region only when the next match is
\* within the gaps on side A and on side B
MergeBothSides(merged, rest) ==
  IF rest = << >> THEN merged
  ELSE LET m == Head(rest)
           last == merged[Len(merged)]
       IN  IF WithinGaps(last, m, "file1") /\ WithinGaps(last, m, "file2")
           THEN MergeBothSides([merged EXCEPT ![Len(merged)] = Extend(last, m)], Tail(rest))
           ELSE MergeBothSides(Append(merged, m), Tail(rest))

MergedOnBothSides(raw) ==
  IF raw = << >> THEN << >>
  ELSE LET sorted == SortMatches(raw) IN MergeBothSides(<< sorted[1] >>, Tail(sorted))

\* C33: merge_adjacent_matches extends the previous region with the next
\* match only if the next match lies within the line gap (1) and the column
\* gap (5) of the previous region on both side A and side B; otherwise the
\* match starts a new region.
C33_MergeNeedsBothSides ==
  /\ cmp.matched => cmp.merged = MergedOnBothSides(cmp.raw)
  /\ cmp.cache_matched => cmp.cache_merged = MergedOnBothSides(cmp.cache_raw)

\* the start of region r on a side is not after the start of match m, and its
\* end is not before the end of m
Covers(r, m, side) ==
  /\ \/ r[side].start_line < m[side].start_line
     \/ /\ r[side].start_line = m[side].start_line
        /\ r[side].start_col <= m[side].start_col
  /\ \/ r[side].end_line > m[side].end_line
     \/ /\ r[side].end_line = m[side].end_line
        /\ r[side].end_col >= m[side].end_col

AllCovered(raw, merged) ==
  \A k \in 1..Len(raw) :
    \E j \in 1..Len(merged) :
      Covers(merged[j], raw[k], "file1") /\ Covers(merged[j], raw[k], "file2")

\* C40: every raw match passed to merge_adjacent_matches is covered on both
\* sides by some region of the output: for file1 and for file2 alike, that
\* region's start is not after the match's start and its end is not before
\* the match's end.
C40_RawMatchesCovered ==
  /\ cmp.matched => AllCovered(cmp.raw, cmp.merged)
  /\ cmp.cache_matched => AllCovered(cmp.cache_raw, cmp.cache_merged)

(***************************************************************************)
(* The settlement of a delivery.                                           *)
(***************************************************************************)
\* worker w's callback returns or is left by an exception
CallbackEnds(w) == InCallback(w) /\ pc'[w] \in {"idle", "escape"}

\* C34: every delivery handled by process_new_message is settled exactly
\* once: in every execution, including those where a store update or the
\* acknowledgement itself raises, exactly one of basic_ack and basic_reject
\* is called for its delivery tag, never both and never neither.
C34_SettledExactlyOnce ==
  [][\A w \in Workers : CallbackEnds(w) => settle_calls'[w] = 1]_vars

FinalUpdate(w) == pc[w] = "complete" /\ pc'[w] # "complete"

LineRanges(h) ==
  { <<a.start[1], b.end[1]>> : a \in SeqRange(Fingerprints(h)), b \in SeqRange(Fingerprints(h)) }

Counted(w) == pc[w] \in {"progress"} \cup PairPositions

\* each of the two files meets the overlap threshold of the other in the
\* inverted index
MutualCandidates(f1, f2, l) ==
  /\ f2.hash \in FindCandidateFiles(Fingerprints(f1.hash), l)
  /\ f1.hash \in FindCandidateFiles(Fingerprints(f2.hash), l)

Schedules(w, f1, f2) == \E k \in 1..Len(cross[w]) : cross[w][k] = <<f1, f2>>

\* C38: when two tasks are processed concurrently by two workers and a file
\* of each task is an index candidate for the other, at least one of the two
\* tasks schedules that cross-task pair, in every interleaving of upload,
\* existing-file listing, indexing and candidate lookup in which indexing
\* succeeds.
C38_OneTaskSchedulesThePair ==
  \A w1, w2 \in Workers :
    (w1 # w2 /\ Counted(w1) /\ Counted(w2) /\ cur[w1] # cur[w2]) =>
      \A i \in 1..Len(Envelope(cur[w1]).files), j \in 1..Len(Envelope(cur[w2]).files) :
        LET f1 == Envelope(cur[w1]).files[i]
            f2 == Envelope(cur[w2]).files[j]
        IN  MutualCandidates(f1, f2, Envelope(cur[w1]).language)
              => Schedules(w1, f1, f2) \/ Schedules(w2, f2, f1)

(***************************************************************************)
(* save_similarity_result on a pair that already has its row.              *)
(***************************************************************************)
SavePositions == {"save_select", "save_commit", "save_reselect"}

\* the rows of the task and the pair worker w is saving
RowsOfCurrentPair(w) ==
  { r \in results : /\ r.task_id = cur[w]
                    /\ r.file_a_id = CurrentPair(w)[1].id
                    /\ r.file_b_id = CurrentPair(w)[2].id }

\* worker w takes a step of save_similarity_result
SaveStep(w) == pc[w] \in SavePositions /\ <<pc[w], pw[w]>> # <<pc'[w], pw'[w]>>

\* the step is the last one of the call
SaveEnds(w) == SaveStep(w) /\ pc'[w] \notin {"save_commit", "save_reselect"}

====
